---------------------------- MODULE Spec2Model ----------------------------
(***************************************************************************)
(* CBR Cafe - Cauca: the retrieval + fusion + retention pipeline of        *)
(* src/app/api_cbr/cbr_cafe.py as a state machine.                         *)
(*                                                                         *)
(* Numbers are fixed point:                                                *)
(*   months (meses_despues_siembra, edad_vivero_meses)   tenths of a month *)
(*   temp_media, prec_total_mm                           tenths            *)
(*   humedad, dias_lluvia, brillo_solar, altitud, sombra units             *)
(*   mes_sin, mes_cos, normalised values, similarities   1/ONE             *)
(*   weights                                             thousandths       *)
(* An optional value is <<"None", 0>> or <<"num", v>>; an optional string  *)
(* is the string itself or "None".                                         *)
(***************************************************************************)
EXTENDS Integers, Sequences, FiniteSets, TLC

VARIABLES
    fs,             \* the files: path -> [kind, data, writable]
    pc,             \* per invocation of run_cbr: where it stands
    params,         \* per invocation: the params dict
    cases,          \* per invocation: load_cases' accumulator
    idx,            \* per invocation: load_cases' position in params["data"]
    resp,           \* per invocation: what run_cbr has computed (steps 1-3)
    cases_existing, \* per invocation: append_case_to_yaml's read of the target
    saved_id,       \* per invocation: run_cbr's saved_id
    ret,            \* per invocation: how run_cbr ended
    hist,           \* history: the reads and rewrites of append_case_to_yaml by the
                    \* invocations in progress, in order: [p, op, path]
    call            \* a single call of a pure function: [fn, arg, done, res]

vars == <<fs, pc, params, cases, idx, resp, cases_existing, saved_id, ret, hist, call>>

pipeVars == <<fs, pc, params, cases, idx, resp, cases_existing, saved_id, ret, hist>>

---------------------------------------------------------------------------
(* Optional values *)

None == <<"None", 0>>

Num(v) == <<"num", v>>

IsNone(x) == x[1] = "None"

\* A value that float() rejects and that cannot be compared with a number:
\* a non-numeric string.
Malo == <<"str", 0>>

EsMalo(x) == x[1] = "str"

Val(x) == x[2]

NoneStr == "None"

Abs(x) == IF x < 0 THEN -x ELSE x

Max(a, b) == IF a >= b THEN a ELSE b

Min(a, b) == IF a <= b THEN a ELSE b

Range(s) == {s[i] : i \in DOMAIN s}

---------------------------------------------------------------------------
(* Phases and domain rules *)

MESES == <<"enero", "febrero", "marzo", "abril", "mayo", "junio",
           "julio", "agosto", "septiembre", "octubre", "noviembre", "diciembre">>

FASES == <<"vivero_establecimiento", "floracion_llenado", "cosecha_poscosecha">>

DOMINIOS == <<"almacigos", "fertilizacion_sin_analisis", "broca">>

\* A plausible slip: borer management allowed in the nursery phase too.
APLICA_DOMINIO_broca_en_vivero(dominio) ==
    CASE dominio = "almacigos" ->
           [aplica_en |-> {"vivero_establecimiento"},
            razon_no_aplica |-> "Almacigos aplica solo en vivero/establecimiento (antes del trasplante)."]
      [] dominio = "fertilizacion_sin_analisis" ->
           [aplica_en |-> {"vivero_establecimiento", "floracion_llenado"},
            razon_no_aplica |-> "Fertilizacion sin analisis no aplica en cosecha/poscosecha."]
      [] dominio = "broca" ->
           [aplica_en |-> {"vivero_establecimiento", "cosecha_poscosecha"},
            razon_no_aplica |-> "Broca aplica cuando hay frutos (cosecha/poscosecha)."]
      [] OTHER ->
           [aplica_en |-> {},
            razon_no_aplica |-> "Dominio no aplicable a la fase actual."]

APLICA_DOMINIO(dominio) ==
    CASE dominio = "almacigos" ->
           [aplica_en |-> {"vivero_establecimiento"},
            razon_no_aplica |-> "Almacigos aplica solo en vivero/establecimiento (antes del trasplante)."]
      [] dominio = "fertilizacion_sin_analisis" ->
           [aplica_en |-> {"vivero_establecimiento", "floracion_llenado"},
            razon_no_aplica |-> "Fertilizacion sin analisis no aplica en cosecha/poscosecha."]
      [] dominio = "broca" ->
           [aplica_en |-> {"cosecha_poscosecha"},
            razon_no_aplica |-> "Broca aplica cuando hay frutos (cosecha/poscosecha)."]
      [] OTHER ->
           \* regla = {} : the .get defaults of dominio_aplica
           [aplica_en |-> {},
            razon_no_aplica |-> "Dominio no aplicable a la fase actual."]

\* MESES.index(m) if m in MESES else 0 (0-based, as in the source)
MesIndex(mes) ==
    IF \E i \in DOMAIN MESES : MESES[i] = mes
    THEN (CHOOSE i \in DOMAIN MESES : MESES[i] = mes) - 1
    ELSE 0

\* A plausible slip: the months of the high band used below 1500 m too.
fase_por_altitud_mes_sin_desfase(altitud, mes) ==
    LET i == MesIndex(mes)
    IN IF i \in {0, 1, 2, 3} THEN "vivero_establecimiento"
       ELSE IF i \in {4, 5, 6, 7} THEN "floracion_llenado"
       ELSE "cosecha_poscosecha"

\* The altitude + month rule of inferir_fase (no usable MDS).
fase_por_altitud_mes(altitud, mes) ==
    LET i   == MesIndex(mes)
        alt == IF IsNone(altitud) THEN 1650 ELSE Val(altitud)
    IN IF alt >= 1500
       THEN IF i \in {0, 1, 2, 3} THEN "vivero_establecimiento"
            ELSE IF i \in {4, 5, 6, 7} THEN "floracion_llenado"
            ELSE "cosecha_poscosecha"
       ELSE IF i \in {11, 0, 1, 2} THEN "vivero_establecimiento"
            ELSE IF i \in {3, 4, 5, 6} THEN "floracion_llenado"
            ELSE "cosecha_poscosecha"

\* A plausible slip: the MDS thresholds taken strictly.
inferir_fase_strict(altitud, mes, mds) ==
    IF ~IsNone(mds)
    THEN IF Val(mds) < 5 THEN "vivero_establecimiento"
         ELSE IF Val(mds) < 240 THEN "floracion_llenado"
         ELSE "cosecha_poscosecha"
    ELSE fase_por_altitud_mes(altitud, mes)

\* mds is in tenths of a month: 0.5 is 5, 24 is 240. A comparison that
\* raises is caught and the altitude and month rule is used.
inferir_fase(altitud, mes, mds) ==
    IF ~IsNone(mds) /\ ~EsMalo(mds)
    THEN IF Val(mds) <= 5 THEN "vivero_establecimiento"
         ELSE IF Val(mds) <= 240 THEN "floracion_llenado"
         ELSE "cosecha_poscosecha"
    ELSE fase_por_altitud_mes(altitud, mes)

\* A plausible slip: the MDS exception applied only in the declared phases.
dominio_aplica_sin_excepcion(dominio, fase, mds) ==
    LET regla == APLICA_DOMINIO(dominio)
    IN <<fase \in regla.aplica_en,
         IF fase \in regla.aplica_en THEN NoneStr ELSE regla.razon_no_aplica>>

\* A plausible slip: the reason returned also when the domain applies.
dominio_aplica_razon_siempre(dominio, fase, mds) ==
    LET regla == APLICA_DOMINIO(dominio)
    IN IF dominio = "fertilizacion_sin_analisis" /\ ~IsNone(mds)
          /\ 10 <= Val(mds) /\ Val(mds) <= 240
       THEN <<TRUE, NoneStr>>
       ELSE <<fase \in regla.aplica_en, regla.razon_no_aplica>>

\* Returns <<aplica, razon>>; razon is NoneStr for None.
dominio_aplica(dominio, fase, mds) ==
    LET regla == APLICA_DOMINIO(dominio)
    IN IF dominio = "fertilizacion_sin_analisis" /\ ~IsNone(mds)
          /\ 10 <= Val(mds) /\ Val(mds) <= 240
       THEN <<TRUE, NoneStr>>
       ELSE <<fase \in regla.aplica_en,
              IF fase \in regla.aplica_en THEN NoneStr ELSE regla.razon_no_aplica>>

---------------------------------------------------------------------------
(* Numeric utilities, weights, ranges *)

\* The float 1.0 of clip01, in the fixed point of normalised values.
ONE == 10000

\* A plausible slip: no clipping.
clip01_sin_recorte(x) == x

clip01(x) == Max(0, Min(ONE, x))

\* sin and cos of 2*pi*idx/12, in 1/ONE.
SinTable == <<0, 5000, 8660, 10000, 8660, 5000, 0, -5000, -8660, -10000, -8660, -5000>>

mes_to_sin_cos(mes) ==
    LET i == MesIndex(mes)
    IN <<SinTable[i + 1], SinTable[((i + 3) % 12) + 1]>>

\* safe_float: None for None and for what float() rejects.
safe_float(x) == IF IsNone(x) \/ EsMalo(x) THEN None ELSE Num(Val(x))

FEATURES == <<"temp_media", "humedad", "prec_total_mm", "dias_lluvia", "brillo_solar",
              "altitud_msnm", "sombra_pct", "mes_sin", "mes_cos",
              "meses_despues_siembra", "edad_vivero_meses", "luna_fase">>

\* Weights in thousandths.
WEIGHTS(domain) ==
    CASE domain = "almacigos" ->
           [temp_media |-> 230, humedad |-> 230, prec_total_mm |-> 220,
            dias_lluvia |-> 40, brillo_solar |-> 30, altitud_msnm |-> 80,
            sombra_pct |-> 50, mes_sin |-> 15, mes_cos |-> 15,
            edad_vivero_meses |-> 80, luna_fase |-> 60]
      [] domain = "fertilizacion_sin_analisis" ->
           [temp_media |-> 150, humedad |-> 200, prec_total_mm |-> 200,
            dias_lluvia |-> 50, brillo_solar |-> 50, altitud_msnm |-> 100,
            sombra_pct |-> 50, mes_sin |-> 25, mes_cos |-> 25,
            meses_despues_siembra |-> 150, luna_fase |-> 70]
      [] domain = "broca" ->
           [temp_media |-> 300, humedad |-> 250, prec_total_mm |-> 200,
            dias_lluvia |-> 50, brillo_solar |-> 50, altitud_msnm |-> 100,
            sombra_pct |-> 30, mes_sin |-> 10, mes_cos |-> 10]

WEIGHTS_B ==
    [temp_media |-> 280, humedad |-> 220, prec_total_mm |-> 220,
     dias_lluvia |-> 60, brillo_solar |-> 60, altitud_msnm |-> 100,
     sombra_pct |-> 40, mes_sin |-> 10, mes_cos |-> 10]

\* Station altitudes (m); None for a station that is not in the table.
STATIONS_ALT(estacion) ==
    CASE estacion = "Estacion_Tambo" -> Num(1735)
      [] estacion = "Estacion_Piendamo" -> Num(1671)
      [] OTHER -> None

\* <<lo, hi>> in the unit of the feature.
RANGES ==
    [temp_media |-> <<100, 300>>, humedad |-> <<40, 100>>,
     prec_total_mm |-> <<0, 4000>>, dias_lluvia |-> <<0, 30>>,
     brillo_solar |-> <<0, 200>>, altitud_msnm |-> <<1000, 2300>>,
     sombra_pct |-> <<0, 80>>, mes_sin |-> <<-ONE, ONE>>, mes_cos |-> <<-ONE, ONE>>,
     meses_despues_siembra |-> <<0, 240>>, edad_vivero_meses |-> <<0, 60>>]

norm01(val, key) ==
    IF IsNone(val) THEN None
    ELSE LET lo == RANGES[key][1]
             hi == RANGES[key][2]
         IN IF hi <= lo THEN Num(0)
            ELSE Num(clip01(((Val(val) - lo) * ONE) \div (hi - lo)))

sim_numeric(a, b, key) ==
    IF IsNone(a) \/ IsNone(b) THEN None
    ELSE Num(clip01(ONE - Abs(Val(norm01(a, key)) - Val(norm01(b, key)))))

\* A plausible slip: each phase adjacent to the next one only.
ADYACENTES_solo_siguiente(a) ==
    CASE a = "nueva" -> {"creciente"}
      [] a = "creciente" -> {"llena"}
      [] a = "llena" -> {"menguante"}
      [] OTHER -> {}

ADYACENTES(a) ==
    CASE a = "nueva" -> {"creciente"}
      [] a = "creciente" -> {"nueva", "llena"}
      [] a = "llena" -> {"creciente", "menguante"}
      [] a = "menguante" -> {"llena"}
      [] OTHER -> {}

\* str.strip().lower() on the lunar phase spellings of the model.
StripLower(s) ==
    CASE s = " Llena " -> "llena"
      [] s = "Nueva" -> "nueva"
      [] OTHER -> s

\* a, b: a string, "" or NoneStr. None when either side is missing.
sim_luna(a, b) ==
    IF a = NoneStr \/ a = "" \/ b = NoneStr \/ b = "" THEN None
    ELSE LET x == StripLower(a)
             y == StripLower(b)
         IN IF x = y THEN Num(ONE)
            ELSE IF y \in ADYACENTES(x) THEN Num(ONE \div 2)
            ELSE Num(0)

\* A plausible slip: the case's own altitude as the reference, the table of
\* stations unread.
station_bonus_sin_tabla(query_alt, case_station, case_alt) ==
    LET qa  == safe_float(query_alt)
        ref == safe_float(case_alt)
    IN IF IsNone(qa) \/ IsNone(ref) THEN 100
       ELSE LET diff == Abs(Val(qa) - Val(ref))
            IN IF diff <= 60 THEN 100
               ELSE IF diff <= 120 THEN 85
               ELSE IF diff <= 200 THEN 70
               ELSE 55

station_bonus(query_alt, case_station, case_alt) ==
    LET qa  == safe_float(query_alt)
        ref == IF ~IsNone(STATIONS_ALT(case_station))
               THEN STATIONS_ALT(case_station) ELSE safe_float(case_alt)
    IN IF IsNone(qa) \/ IsNone(ref) THEN 100
       ELSE LET diff == Abs(Val(qa) - Val(ref))
            IN IF diff <= 60 THEN 100
               ELSE IF diff <= 120 THEN 85
               ELSE IF diff <= 200 THEN 70
               ELSE 55

---------------------------------------------------------------------------
(* Vectors *)

extract_input_vector(args) ==
    LET sc == mes_to_sin_cos(args.mes)
    IN [temp_media |-> safe_float(args.temp_media),
        humedad |-> safe_float(args.humedad),
        prec_total_mm |-> safe_float(args.prec_total_mm),
        dias_lluvia |-> safe_float(args.dias_lluvia),
        brillo_solar |-> safe_float(args.brillo_solar),
        altitud_msnm |-> safe_float(args.altitud),
        sombra_pct |-> safe_float(args.sombra),
        mes_sin |-> Num(sc[1]), mes_cos |-> Num(sc[2]),
        meses_despues_siembra |-> safe_float(args.meses_despues_siembra),
        edad_vivero_meses |-> safe_float(args.edad_vivero_meses),
        luna_fase |-> args.luna]

\* A sub-object of a case is <<>> (absent or null) or <<value>>.
SubGet(obj) == IF obj = <<>> THEN None ELSE obj[1]

extract_case_vector_A(case) ==
    LET ctx == case.contexto
        cli == case.clima
        sc  == mes_to_sin_cos(ctx.mes)
        ev0 == safe_float(SubGet(case.almacigos_meta))
        evm == IF IsNone(ev0) THEN safe_float(ctx.edad_vivero_meses) ELSE ev0
    IN [temp_media |-> safe_float(cli.temp_media),
        humedad |-> safe_float(cli.humedad),
        prec_total_mm |-> safe_float(cli.prec_total_mm),
        dias_lluvia |-> safe_float(cli.dias_lluvia),
        brillo_solar |-> safe_float(cli.brillo_solar),
        altitud_msnm |-> safe_float(ctx.altitud_msnm),
        sombra_pct |-> safe_float(ctx.sombra_pct),
        mes_sin |-> Num(sc[1]), mes_cos |-> Num(sc[2]),
        meses_despues_siembra |-> safe_float(SubGet(case.fertilizacion_sin_suelo)),
        edad_vivero_meses |-> evm,
        luna_fase |-> case.luna_fase]

extract_case_vector_B(case) ==
    LET ctx == case.contexto
        cli == case.clima
        sc  == mes_to_sin_cos(ctx.mes)
    IN [estacion |-> ctx.estacion,
        altitud_msnm |-> safe_float(ctx.altitud_msnm),
        sombra_pct |-> safe_float(ctx.sombra_pct),
        mes_sin |-> Num(sc[1]), mes_cos |-> Num(sc[2]),
        temp_media |-> safe_float(cli.temp_media),
        humedad |-> safe_float(cli.humedad),
        prec_total_mm |-> safe_float(cli.prec_total_mm),
        dias_lluvia |-> safe_float(cli.dias_lluvia),
        brillo_solar |-> safe_float(cli.brillo_solar)]

---------------------------------------------------------------------------
(* Weighted similarity *)

\* A plausible slip: a feature that cannot be compared is scored as zero,
\* its weight kept in the denominator.
TermA_ausente_cero(qvec, cvec, weights, k) ==
    IF k \notin DOMAIN weights THEN <<0, 0>>
    ELSE IF k = "luna_fase"
    THEN LET simk == sim_luna(qvec.luna_fase, cvec.luna_fase)
         IN IF qvec.luna_fase = NoneStr \/ IsNone(simk) THEN <<0, weights[k]>>
            ELSE <<weights[k] * clip01(Val(simk)), weights[k]>>
    ELSE LET simk == sim_numeric(qvec[k], cvec[k], k)
         IN IF IsNone(qvec[k]) \/ IsNone(simk) THEN <<0, weights[k]>>
            ELSE <<weights[k] * clip01(Val(simk)), weights[k]>>

\* What feature k adds to <<s_num, s_den>> in the tier-A loop.
TermA(qvec, cvec, weights, k) ==
    IF k \notin DOMAIN weights THEN <<0, 0>>
    ELSE IF k = "luna_fase"
    THEN LET simk == sim_luna(qvec.luna_fase, cvec.luna_fase)
         IN IF qvec.luna_fase = NoneStr \/ IsNone(simk) THEN <<0, 0>>
            ELSE <<weights[k] * clip01(Val(simk)), weights[k]>>
    ELSE LET simk == sim_numeric(qvec[k], cvec[k], k)
         IN IF IsNone(qvec[k]) \/ IsNone(simk) THEN <<0, 0>>
            ELSE <<weights[k] * clip01(Val(simk)), weights[k]>>

\* <<s_num, s_den>> of the loop, from feature i on.
RECURSIVE SumTermsA(_, _, _, _)
SumTermsA(qvec, cvec, weights, i) ==
    IF i > Len(FEATURES) THEN <<0, 0>>
    ELSE LET t    == TermA(qvec, cvec, weights, FEATURES[i])
             rest == SumTermsA(qvec, cvec, weights, i + 1)
         IN <<t[1] + rest[1], t[2] + rest[2]>>

similarity_weighted_A(qvec, cvec, domain) ==
    LET s == SumTermsA(qvec, cvec, WEIGHTS(domain), 1)
    IN IF s[2] <= 0 THEN 0 ELSE clip01(s[1] \div s[2])

TermB(qvec, cvec, k) ==
    IF k \notin DOMAIN WEIGHTS_B THEN <<0, 0>>
    ELSE LET simk == sim_numeric(qvec[k], cvec[k], k)
         IN IF IsNone(qvec[k]) \/ IsNone(simk) THEN <<0, 0>>
            ELSE <<WEIGHTS_B[k] * clip01(Val(simk)), WEIGHTS_B[k]>>

RECURSIVE SumTermsB(_, _, _)
SumTermsB(qvec, cvec, i) ==
    IF i > Len(FEATURES) THEN <<0, 0>>
    ELSE LET t    == TermB(qvec, cvec, FEATURES[i])
             rest == SumTermsB(qvec, cvec, i + 1)
         IN <<t[1] + rest[1], t[2] + rest[2]>>

\* The bonus is in hundredths.
similarity_weighted_B(qvec, cvec, query_alt) ==
    LET s     == SumTermsB(qvec, cvec, 1)
        base  == IF s[2] <= 0 THEN 0 ELSE clip01(s[1] \div s[2])
        bonus == station_bonus(query_alt, cvec.estacion, cvec.altitud_msnm)
    IN clip01((base * bonus) \div 100)

\* round(float(s), 3): thousandths, from 1/ONE.
Round3(s) == (s + 5) \div 10

---------------------------------------------------------------------------
(* Text. A line of advice is a sequence of tokens; " " is white space. The *)
(* tokens are listed in code-point order and none is a prefix of another,  *)
(* so comparing lines token by token is comparing the strings.             *)

TOKENS == <<" ", "18", "6", "Aplicar", "Cal", "DAP", "MDS", "NPK", "Podar",
            "Urea", "adaptar", "sombra", "urea">>

TokRank(t) == CHOOSE i \in DOMAIN TOKENS : TOKENS[i] = t

RECURSIVE LStrip(_)
LStrip(l) == IF l # <<>> /\ Head(l) = " " THEN LStrip(Tail(l)) ELSE l

RECURSIVE RStrip(_)
RStrip(l) == IF l # <<>> /\ l[Len(l)] = " " THEN RStrip(SubSeq(l, 1, Len(l) - 1)) ELSE l

\* str.strip()
Strip(l) == RStrip(LStrip(l))

\* a < b as Python compares str
RECURSIVE LineLess(_, _)
LineLess(a, b) ==
    IF a = <<>> THEN b # <<>>
    ELSE IF b = <<>> THEN FALSE
    ELSE IF Head(a) = Head(b) THEN LineLess(Tail(a), Tail(b))
    ELSE TokRank(Head(a)) < TokRank(Head(b))

\* sorted(set of lines)
RECURSIVE SortedLines(_)
SortedLines(S) ==
    IF S = {} THEN <<>>
    ELSE LET m == CHOOSE x \in S : \A y \in S \ {x} : LineLess(x, y)
         IN <<m>> \o SortedLines(S \ {m})

\* The first occurrence of every element, in order.
RECURSIVE OrderedUnique(_)
OrderedUnique(q) ==
    IF q = <<>> THEN <<>>
    ELSE LET front == OrderedUnique(SubSeq(q, 1, Len(q) - 1))
             x     == q[Len(q)]
         IN IF x \in Range(front) THEN front ELSE Append(front, x)

RECURSIVE Flatten(_)
Flatten(qq) == IF qq = <<>> THEN <<>> ELSE Head(qq) \o Flatten(Tail(qq))

\* [F(x) for x in q]
RECURSIVE MapSeq(_, _)
MapSeq(F(_), q) == IF q = <<>> THEN <<>> ELSE <<F(Head(q))>> \o MapSeq(F, Tail(q))

---------------------------------------------------------------------------
(* Retrieval *)

\* list.sort(key=score, reverse=True): stable, descending.
RECURSIVE SortByScoreDesc(_)
SortByScoreDesc(hits) ==
    IF hits = <<>> THEN <<>>
    ELSE LET front == SortByScoreDesc(SubSeq(hits, 1, Len(hits) - 1))
             x     == hits[Len(hits)]
             n     == Cardinality({i \in DOMAIN front : front[i].s >= x.s})
         IN SubSeq(front, 1, n) \o <<x>> \o SubSeq(front, n + 1, Len(front))

\* The scored candidates of a domain, in store order.
ScoredA(cs, query_vec, domain) ==
    MapSeq(LAMBDA c : [s |-> similarity_weighted_A(query_vec, extract_case_vector_A(c), domain),
                       c |-> c],
           SelectSeq(cs, LAMBDA c : c.tipo = domain))

\* hits[:n]
Take(q, n) == SubSeq(q, 1, Min(Len(q), n))

\* A plausible slip: the gate not consulted before retrieval.
top_k_A_sin_puerta(cs, query_vec, domain, k, fase_actual, mds) ==
    LET ap == dominio_aplica(domain, fase_actual, mds)
    IN <<Take(SortByScoreDesc(ScoredA(cs, query_vec, domain)), Max(1, k)),
         [aplica |-> ap[1], razon_no_aplica |-> ap[2]]>>

\* A plausible slip: hits[:k] without the max(1, k).
top_k_A_sin_max(cs, query_vec, domain, k, fase_actual, mds) ==
    LET ap == dominio_aplica(domain, fase_actual, mds)
    IN IF ~ap[1]
       THEN <<<<>>, [aplica |-> FALSE, razon_no_aplica |-> ap[2]]>>
       ELSE <<Take(SortByScoreDesc(ScoredA(cs, query_vec, domain)), Max(0, k)),
              [aplica |-> TRUE, razon_no_aplica |-> NoneStr]>>

\* Returns <<hits, meta>>; a hit is [s, c].
top_k_A(cs, query_vec, domain, k, fase_actual, mds) ==
    LET ap == dominio_aplica(domain, fase_actual, mds)
    IN IF ~ap[1]
       THEN <<<<>>, [aplica |-> FALSE, razon_no_aplica |-> ap[2]]>>
       ELSE <<Take(SortByScoreDesc(ScoredA(cs, query_vec, domain)), Max(1, k)),
              [aplica |-> TRUE, razon_no_aplica |-> NoneStr]>>

\* Tier B: a case tagged historico or carrying a station name.
EsCasoB(c) == c.tipo = "historico" \/ (c.contexto.estacion # NoneStr /\ c.contexto.estacion # "")

\* The extras of one top case: one per non-empty category text.
ExtrasDe(h) ==
    LET recs == h.c.recomendaciones.categorias
    IN MapSeq(LAMBDA r : [texto |-> Strip(r[2]),
                          categoria_b |-> r[1],
                          estacion |-> h.c.contexto.estacion,
                          similitud |-> Round3(h.s),
                          id_caso |-> h.c.id],
              SelectSeq(recs, LAMBDA r : r[2] # <<>>))

\* A plausible slip: the top kB without the floor of one.
extras_from_B_sin_max(cs, query_context, kB) ==
    LET sc   == mes_to_sin_cos(query_context.mes)
        qvec == [temp_media |-> query_context.temp_media,
                 humedad |-> query_context.humedad,
                 prec_total_mm |-> query_context.prec_total_mm,
                 dias_lluvia |-> query_context.dias_lluvia,
                 brillo_solar |-> query_context.brillo_solar,
                 altitud_msnm |-> query_context.altitud,
                 sombra_pct |-> query_context.sombra,
                 mes_sin |-> Num(sc[1]), mes_cos |-> Num(sc[2])]
        scored == MapSeq(LAMBDA c : [s |-> similarity_weighted_B(qvec, extract_case_vector_B(c),
                                                                  query_context.altitud),
                                     c |-> c],
                         SelectSeq(cs, EsCasoB))
        top  == Take(SortByScoreDesc(scored), kB)
    IN <<Flatten(MapSeq(ExtrasDe, top)), top>>

\* Returns <<extras, top>>.
extras_from_B(cs, query_context, kB) ==
    LET sc   == mes_to_sin_cos(query_context.mes)
        qvec == [temp_media |-> query_context.temp_media,
                 humedad |-> query_context.humedad,
                 prec_total_mm |-> query_context.prec_total_mm,
                 dias_lluvia |-> query_context.dias_lluvia,
                 brillo_solar |-> query_context.brillo_solar,
                 altitud_msnm |-> query_context.altitud,
                 sombra_pct |-> query_context.sombra,
                 mes_sin |-> Num(sc[1]), mes_cos |-> Num(sc[2])]
        scored == MapSeq(LAMBDA c : [s |-> similarity_weighted_B(qvec, extract_case_vector_B(c),
                                                                  query_context.altitud),
                                     c |-> c],
                         SelectSeq(cs, EsCasoB))
        top  == Take(SortByScoreDesc(scored), Max(1, kB))
    IN <<Flatten(MapSeq(ExtrasDe, top)), top>>

---------------------------------------------------------------------------
(* Fusion of recommendations *)

COMPONENTES_FERT == <<"urea", "DAP", "KCl", "NPK", "MgO">>

\* The components (lower case) a token contains, ignoring case.
TokenComps(t) ==
    CASE t \in {"urea", "Urea"} -> {"urea"}
      [] t \in {"DAP", "adaptar"} -> {"dap"}
      [] t = "NPK" -> {"npk"}
      [] OTHER -> {}

IsDigits(t) == t \in {"6", "18"}

DigitVal(t) == IF t = "6" THEN 6 ELSE 18

\* The token after position i, white space skipped ("" at the end).
RECURSIVE NextNonSpace(_, _)
NextNonSpace(l, i) ==
    IF i >= Len(l) THEN ""
    ELSE IF l[i + 1] = " " THEN NextNonSpace(l, i + 1)
    ELSE l[i + 1]

\* re.search(r'(\d+)\s*MDS'): the leftmost number followed by MDS, in tenths.
\* The second pattern only matches where the first one already has.
extraer_mds_de_texto(l) ==
    LET hits == {i \in DOMAIN l : IsDigits(l[i]) /\ NextNonSpace(l, i) = "MDS"}
    IN IF hits = {} THEN None
       ELSE Num(10 * DigitVal(l[CHOOSE i \in hits : \A j \in hits : i <= j]))

\* As a set: the order of the components plays no part in the result.
extraer_componentes(l) == UNION {TokenComps(l[i]) : i \in DOMAIN l}

\* The technical lines of the hits, in rank order, as the loop meets them.
LineasTecnicas(hits) == Flatten(MapSeq(LAMBDA h : h.c.recomendaciones.tecnicas, hits))

LineasTradicionales(hits) ==
    Flatten(MapSeq(LAMBDA h : h.c.recomendaciones.tradicionales, hits))

\* A plausible slip: the marker of the line is not used.
DistMDS_sin_marcador(texto, mds_query) == 9990

\* 999.0 is 9990 tenths.
DistMDS(texto, mds_query) ==
    LET m == extraer_mds_de_texto(texto)
    IN IF ~IsNone(mds_query) /\ ~IsNone(m) THEN Abs(Val(mds_query) - Val(m)) ELSE 9990

\* A candidate: a stripped technical line with its components and distance.
Candidato(texto, mds_query) ==
    [texto |-> texto, comps |-> extraer_componentes(texto), dist |-> DistMDS(texto, mds_query)]

\* A plausible slip: every line kept, no winner chosen.
combinar_recs_fertilizacion_todas(hits_fert, mds_query) ==
    SortedLines({Strip(t) : t \in Range(LineasTecnicas(hits_fert)) \ {<<>>}})

combinar_recs_fertilizacion(hits_fert, mds_query) ==
    LET cand  == MapSeq(LAMBDA t : Candidato(Strip(t), mds_query),
                        SelectSeq(LineasTecnicas(hits_fert), LAMBDA t : t # <<>>))
        gen   == {cand[i].texto : i \in {j \in DOMAIN cand : cand[j].comps = {}}}
        comps == UNION {cand[i].comps : i \in DOMAIN cand}
        \* dist < actual[0]: the first line at the least distance stays
        mejor(comp) ==
            LET with == {i \in DOMAIN cand : comp \in cand[i].comps}
                best == CHOOSE i \in with :
                          \A j \in with :
                             \/ cand[i].dist < cand[j].dist
                             \/ (cand[i].dist = cand[j].dist /\ i <= j)
            IN cand[best].texto
    IN SortedLines(gen \cup {mejor(c) : c \in comps})

\* A plausible slip: the lines compared and kept untrimmed.
DedupLineas_sin_recorte(ls) == OrderedUnique(SelectSeq(ls, LAMBDA t : t # <<>>))

DedupLineas(ls) ==
    OrderedUnique(SelectSeq(MapSeq(Strip, ls), LAMBDA t : t # <<>>))

combinar_recs_genericas(hits_dom) ==
    [tecnicas |-> DedupLineas(LineasTecnicas(hits_dom)),
     tradicionales |-> DedupLineas(LineasTradicionales(hits_dom))]

\* A plausible slip: the texts of a category kept with their repetitions.
agrupar_extras_B_sin_dedup(extras_B) ==
    LET cat(e) == IF e.categoria_b = "" THEN "general" ELSE e.categoria_b
        ok     == SelectSeq(extras_B, LAMBDA e : Strip(e.texto) # <<>>)
        cats   == OrderedUnique(MapSeq(cat, ok))
    IN MapSeq(LAMBDA c : <<c, MapSeq(LAMBDA e : Strip(e.texto),
                                     SelectSeq(ok, LAMBDA e : cat(e) = c))>>,
              cats)

\* Category -> ordered unique texts, as a sequence of <<category, texts>> in
\* the order the categories first appear.
agrupar_extras_B(extras_B) ==
    LET cat(e) == IF e.categoria_b = "" THEN "general" ELSE e.categoria_b
        ok     == SelectSeq(extras_B, LAMBDA e : Strip(e.texto) # <<>>)
        cats   == OrderedUnique(MapSeq(cat, ok))
    IN MapSeq(LAMBDA c : <<c, OrderedUnique(MapSeq(LAMBDA e : Strip(e.texto),
                                                   SelectSeq(ok, LAMBDA e : cat(e) = c)))>>,
              cats)

---------------------------------------------------------------------------
(* run_cbr, steps 1 to 3: everything computed from the loaded cases *)

\* fase_in or inferir_fase(...)
ResolverFase(ps) ==
    IF ps.fase # NoneStr /\ ps.fase # ""
    THEN ps.fase
    ELSE inferir_fase(ps.altitud, ps.mes, ps.meses_despues_siembra)

\* A plausible slip: inference preferred over the declared phase.
FaseActual_inferida(ps) ==
    IF ~IsNone(ps.meses_despues_siembra)
    THEN inferir_fase(ps.altitud, ps.mes, ps.meses_despues_siembra)
    ELSE ResolverFase(ps)

FaseActual(ps) == ResolverFase(ps)

\* A plausible slip: the three domains whatever the selector.
Dominios_siempre_tres(ps) == DOMINIOS

Dominios(ps) == IF ps.tipo = "auto" THEN DOMINIOS ELSE <<ps.tipo>>

HitsRes(klist) ==
    MapSeq(LAMBDA h : [similitud |-> Round3(h.s),
                       id |-> h.c.id,
                       tipo |-> h.c.tipo,
                       ubicacion |-> h.c.contexto.ubicacion],
           klist)

Recomendaciones(dom, klist, meta, mds) ==
    IF ~meta.aplica
    THEN [tecnicas |-> <<>>, tradicionales |-> <<>>]
    ELSE IF dom = "fertilizacion_sin_analisis"
    THEN [tecnicas |-> combinar_recs_fertilizacion(klist, mds),
          tradicionales |-> combinar_recs_genericas(klist).tradicionales]
    ELSE combinar_recs_genericas(klist)

\* Steps 1 and 3 of run_cbr for one domain: klist and meta of top_k_A, and
\* the entry of resultados.
PorDominio(cs, ps, d) ==
    LET t == top_k_A(cs, extract_input_vector(ps), d, ps.k, FaseActual(ps),
                     ps.meses_despues_siembra)
    IN [klist |-> t[1],
        hits |-> HitsRes(t[1]),
        recomendaciones |-> Recomendaciones(d, t[1], t[2], ps.meses_despues_siembra),
        aplicabilidad |-> t[2]]

\* The locals of run_cbr after step 3.
Calcular(cs, ps) ==
    LET ex == IF ps.usar_extras_b THEN extras_from_B(cs, ps, ps.kB)[1] ELSE <<>>
    IN [fase_actual |-> FaseActual(ps),
        por_dom |-> [d \in Range(Dominios(ps)) |-> PorDominio(cs, ps, d)],
        extras |-> ex,
        extras_agrupados |-> IF ps.usar_extras_b THEN agrupar_extras_B(ex) ELSE <<>>]

\* The numeric fields of the query that tier B compares unconverted.
CamposB ==
    [temp_media |-> "temp_media", humedad |-> "humedad", prec_total_mm |-> "prec_total_mm",
     dias_lluvia |-> "dias_lluvia", brillo_solar |-> "brillo_solar",
     altitud_msnm |-> "altitud", sombra_pct |-> "sombra"]

\* Steps 1 to 3 of run_cbr raise: float(altitud) in inferir_fase, the
\* comparison 1 <= mds <= 24 in dominio_aplica, or the subtraction of norm01
\* on an unconverted query value in tier B.
Levanta(cs, ps) ==
    \/ /\ ps.fase \in {NoneStr, ""}
       /\ IsNone(ps.meses_despues_siembra) \/ EsMalo(ps.meses_despues_siembra)
       /\ EsMalo(ps.altitud)
    \/ /\ EsMalo(ps.meses_despues_siembra)
       /\ "fertilizacion_sin_analisis" \in Range(Dominios(ps))
    \/ /\ ps.usar_extras_b
       /\ \E i \in DOMAIN cs : \E k \in DOMAIN CamposB :
             /\ EsCasoB(cs[i])
             /\ EsMalo(ps[CamposB[k]])
             /\ ~IsNone(extract_case_vector_B(cs[i])[k])

\* resultados[d] as run_cbr returns it.
Resultado(r, d) ==
    [hits |-> r.por_dom[d].hits,
     recomendaciones |-> r.por_dom[d].recomendaciones,
     aplicabilidad |-> r.por_dom[d].aplicabilidad]

\* The dict run_cbr returns.
Output(r, ps, sid) ==
    [consulta |-> [tipo |-> ps.tipo, k |-> ps.k, kB |-> ps.kB,
                   usar_extras_b |-> ps.usar_extras_b, fase |-> r.fase_actual],
     resultados_A |-> [d \in DOMAIN r.por_dom |-> Resultado(r, d)],
     extras_B_raw |-> r.extras,
     extras_B_agrupados |-> r.extras_agrupados,
     saved_case_id |-> sid]

---------------------------------------------------------------------------
(* The endpoint *)

\* recomendar_cbr of api_cbr.py on the outcome of run_cbr(params,
\* verbose=False): "raised", "None" or "output". The status of the reply.
\* The handler raises HTTPException(400) inside its own try block, and
\* HTTPException is an Exception, so `except Exception` catches it and
\* raises HTTPException(500) in its place.
recomendar_cbr(resultado) ==
    LET en_try == IF resultado = "raised" THEN "Exception"
                  ELSE IF resultado = "None" THEN "HTTPException 400"
                  ELSE "return"
    IN IF en_try \in {"Exception", "HTTPException 400"} THEN 500 ELSE 200

---------------------------------------------------------------------------
(* Retention *)

RECURSIVE Digits(_)
Digits(n) == IF n < 10 THEN <<n>> ELSE Append(Digits(n \div 10), n % 10)

RECURSIVE PadLeft(_, _)
PadLeft(d, w) == IF Len(d) >= w THEN d ELSE PadLeft(<<0>> \o d, w)

\* f"NEW-{next_id:04d}"
NewId(next_id) == [prefix |-> "NEW-", digits |-> PadLeft(Digits(next_id), 4)]

NoId == [prefix |-> "None", digits |-> <<>>]

\* out_case of run_cbr, before its id is assigned.
OutCase(r, ps) ==
    [id |-> NoId,
     tipo |-> ps.tipo,
     contexto |-> [ubicacion |-> ps.ubicacion, altitud_msnm |-> ps.altitud,
                   mes |-> ps.mes, variedad |-> ps.variedad, sombra_pct |-> ps.sombra,
                   edad_vivero_meses |-> ps.edad_vivero_meses, estacion |-> NoneStr],
     clima |-> [temp_media |-> ps.temp_media, humedad |-> ps.humedad,
                prec_total_mm |-> ps.prec_total_mm, dias_lluvia |-> ps.dias_lluvia,
                brillo_solar |-> ps.brillo_solar],
     fertilizacion_sin_suelo |->
         IF ps.tipo \in {"auto", "fertilizacion_sin_analisis"}
         THEN <<ps.meses_despues_siembra>> ELSE <<>>,
     almacigos_meta |->
         IF ps.tipo \in {"auto", "almacigos"} THEN <<ps.edad_vivero_meses>> ELSE <<>>,
     luna_fase |-> ps.luna,
     fase_fenologica |-> r.fase_actual,
     recomendaciones |->
         LET rr == r.por_dom[IF ps.tipo # "auto" THEN ps.tipo
                             ELSE "fertilizacion_sin_analisis"].recomendaciones
         IN [tecnicas |-> rr.tecnicas, tradicionales |-> rr.tradicionales,
             categorias |-> <<>>],
     fuente_caso_base |-> "CBR generado"]

\* What append_case_to_yaml takes the target to hold.
LeerExistentes(f) == IF f.kind = "list" THEN f.data ELSE <<>>

\* A plausible slip: the id taken from the length without the + 1.
SiguienteId_sin_mas_uno(existing) == NewId(Len(existing))

SiguienteId(existing) == NewId(Len(existing) + 1)

\* A plausible slip: the store rewritten with the new case alone.
Reescrito_solo_nuevo(existing, new_case) ==
    <<[new_case EXCEPT !.id = SiguienteId(existing)]>>

\* A plausible slip: the new case placed first.
Reescrito_al_inicio(existing, new_case) ==
    <<[new_case EXCEPT !.id = SiguienteId(existing)]>> \o existing

\* cases_existing after the append: what is dumped to the file.
Reescrito(existing, new_case) ==
    Append(existing, [new_case EXCEPT !.id = SiguienteId(existing)])

---------------------------------------------------------------------------
(* Inputs: case records, files, queries *)

\* Bounds of the model.
MaxCases == 3

MaxK == 2

MaxStore == 3

Procs == {1, 2}

Paths == {"A", "B", "C"}

Id(pre, n) == [prefix |-> pre, digits |-> PadLeft(Digits(n), 4)]

CasoBase ==
    [id |-> Id("A-", 1),
     tipo |-> "fertilizacion_sin_analisis",
     contexto |-> [ubicacion |-> "Popayan", altitud_msnm |-> Num(1700), mes |-> "noviembre",
                   variedad |-> "Castillo", sombra_pct |-> Num(30),
                   edad_vivero_meses |-> None, estacion |-> NoneStr],
     clima |-> [temp_media |-> Num(180), humedad |-> Num(90), prec_total_mm |-> Num(1900),
                dias_lluvia |-> Num(17), brillo_solar |-> Num(100)],
     fertilizacion_sin_suelo |-> <<Num(100)>>,
     almacigos_meta |-> <<>>,
     luna_fase |-> "creciente",
     fase_fenologica |-> "floracion_llenado",
     recomendaciones |->
         [tecnicas |-> << <<"Aplicar", " ", "urea", " ", "6", " ", "MDS">>, <<"Podar">> >>,
          tradicionales |-> << <<"Cal">> >>,
          categorias |-> <<>>],
     fuente_caso_base |-> "Dataset A"]

\* Same features as CasoBase (an equal score), other advice.
CasoF2 ==
    [CasoBase EXCEPT
       !.id = Id("A-", 2),
       !.recomendaciones.tecnicas =
           << <<"Aplicar", " ", "Urea", " ", "18", " ", "MDS">>, <<" ", "Podar", " ">> >>,
       !.recomendaciones.tradicionales = << <<"Cal">>, <<"sombra">> >>]

CasoF3 ==
    [CasoBase EXCEPT
       !.id = Id("A-", 3),
       !.clima.temp_media = Num(250),
       !.fertilizacion_sin_suelo = <<Num(200)>>,
       !.luna_fase = " Llena ",
       !.recomendaciones.tecnicas = << <<"NPK", " ", "DAP">> >>,
       !.recomendaciones.tradicionales = <<>>]

CasoN1 ==
    [CasoBase EXCEPT
       !.id = Id("A-", 4),
       !.tipo = "almacigos",
       !.fertilizacion_sin_suelo = <<>>,
       !.almacigos_meta = <<Num(30)>>,
       !.fase_fenologica = "vivero_establecimiento",
       !.recomendaciones.tecnicas = << <<"Podar">>, <<"sombra">> >>,
       !.recomendaciones.tradicionales = << <<"Podar">> >>]

CasoB1 ==
    [CasoBase EXCEPT
       !.id = Id("A-", 5),
       !.tipo = "broca",
       !.clima.humedad = Num(70),
       !.fertilizacion_sin_suelo = <<>>,
       !.luna_fase = NoneStr,
       !.fase_fenologica = "cosecha_poscosecha",
       !.recomendaciones.tecnicas = << <<"Cal">>, <<"Cal", " ">> >>,
       !.recomendaciones.tradicionales = <<>>]

CasoH(n, estacion, alt) ==
    [CasoBase EXCEPT
       !.id = Id("B-", n),
       !.tipo = "historico",
       !.contexto.estacion = estacion,
       !.contexto.altitud_msnm = alt,
       !.fertilizacion_sin_suelo = <<>>,
       !.luna_fase = NoneStr,
       !.fase_fenologica = NoneStr,
       !.recomendaciones.tecnicas = <<>>,
       !.recomendaciones.tradicionales = <<>>,
       !.recomendaciones.categorias =
           << <<"manejo", <<"Podar">> >>, <<"suelo", <<"Cal", " ">> >>, <<"riego", <<>> >> >>,
       !.fuente_caso_base = "Dataset B"]

PoolA == {CasoBase, CasoF2, CasoF3, CasoN1, CasoB1}

\* The sequences without repetition over S of length at most n.
RECURSIVE SeqsSinRepetir(_, _)
SeqsSinRepetir(S, n) ==
    IF n = 0 THEN {<<>>}
    ELSE LET shorter == SeqsSinRepetir(S, n - 1)
             longer  == UNION {{Append(q, x) : x \in S \ Range(q)} : q \in shorter}
         IN shorter \cup longer

Lista(data) == [kind |-> "list", data |-> data, writable |-> TRUE]

Ausente == [kind |-> "missing", data |-> <<>>, writable |-> TRUE]

\* A case as retention leaves it, numbered n.
CasoNEW(n) ==
    [CasoBase EXCEPT !.id = NewId(n), !.tipo = "auto", !.fuente_caso_base = "CBR generado",
                     !.almacigos_meta = <<Num(30)>>]

\* A record without a tag that carries a station name: tier B takes it, no
\* domain of tier A does.
CasoEstacion ==
    [CasoH(3, "Estacion_Piendamo", None) EXCEPT
       !.tipo = NoneStr,
       !.clima.humedad = Num(70),
       !.recomendaciones.categorias =
           << <<"manejo", <<"Podar">> >>, <<"clima", <<"sombra">> >> >>]

ArchivoB ==
    Lista(<<CasoH(2, "Otra", Num(1400)), CasoEstacion, CasoH(1, "Estacion_Tambo", Num(1735))>>)

ArchivoAFijo == Lista(<<CasoBase, CasoN1, CasoB1>>)

\* Retention targets: absent, empty, in sequence, not a list, unreadable, read-only.
ArchivosC ==
    {Ausente, Lista(<<>>)}
    \cup {Lista([i \in 1..n |-> CasoNEW(i)]) : n \in 1..MaxStore}
    \cup {[kind |-> "nonlist", data |-> <<>>, writable |-> TRUE],
          [kind |-> "unreadable", data |-> <<>>, writable |-> TRUE],
          [kind |-> "unreadable", data |-> <<>>, writable |-> FALSE],
          [Lista(<<CasoNEW(1)>>) EXCEPT !.writable = FALSE],
          [Ausente EXCEPT !.writable = FALSE]}

FS(a, c) == [f \in Paths |-> IF f = "A" THEN a ELSE IF f = "B" THEN ArchivoB ELSE c]

\* The request of the API's defaults (CBRRequest), verbose as the API passes it.
ConsultaBase ==
    [data |-> <<"A", "B">>, tipo |-> "auto", ubicacion |-> NoneStr,
     altitud |-> Num(1678), mes |-> "noviembre", variedad |-> NoneStr, sombra |-> Num(25),
     temp_media |-> Num(176), humedad |-> Num(97), prec_total_mm |-> Num(1922),
     dias_lluvia |-> Num(18), brillo_solar |-> Num(95),
     meses_despues_siembra |-> Num(100), edad_vivero_meses |-> Num(30),
     luna |-> "creciente", fase |-> "vivero_establecimiento",
     k |-> 3, kB |-> 1, usar_extras_b |-> TRUE, save_case_to |-> NoneStr,
     verbose |-> FALSE]

Tipos == {"auto", "almacigos", "fertilizacion_sin_analisis", "broca"}

FasesEntrada == {NoneStr} \cup Range(FASES)

\* MDS in tenths: absent, 0.5, 0.9, 10, 30.
MDSEntrada == {None, Num(5), Num(9), Num(100), Num(300)}

KEntrada == (-1)..MaxK

\* Queries over all three domains that vary the phase, the MDS and k.
ConsultasPuerta ==
    {[ConsultaBase EXCEPT !.fase = f, !.meses_despues_siembra = m, !.k = k] :
        f \in FasesEntrada, m \in MDSEntrada, k \in KEntrada}

\* Queries for a single domain.
ConsultasUnDominio ==
    {[ConsultaBase EXCEPT !.tipo = t, !.fase = f, !.meses_despues_siembra = m, !.k = 1] :
        t \in Tipos \ {"auto"}, f \in FasesEntrada, m \in {None, Num(100)}}

\* Queries whose phase is inferred from altitude and month.
ConsultasInferidas ==
    {[ConsultaBase EXCEPT !.fase = NoneStr, !.meses_despues_siembra = None,
                          !.altitud = a, !.mes = m, !.k = 1] :
        a \in {None, Num(1400), Num(1678)}, m \in {"enero", "abril", "agosto", "diciembre", "mes?"}}

\* Queries that vary the tier-B extras.
ConsultasExtras ==
    {[ConsultaBase EXCEPT !.kB = kb, !.usar_extras_b = u, !.k = 1] :
        kb \in 0..MaxK, u \in BOOLEAN}

\* Queries that retain a case.
ConsultasRetencion ==
    {[ConsultaBase EXCEPT !.tipo = t, !.data = d, !.save_case_to = s, !.verbose = v, !.k = 1] :
        t \in Tipos, d \in {<<"A", "B">>, <<"A", "C">>, <<"C">>}, s \in {"C", "A"},
        v \in BOOLEAN}

\* Queries with a non-numeric value in a numeric field.
ConsultasMalformadas ==
    UNION {{[ConsultaBase EXCEPT !.tipo = t, !.fase = f, !.usar_extras_b = u, !.k = 1,
                                 !.meses_despues_siembra = Malo],
             [ConsultaBase EXCEPT !.tipo = t, !.fase = f, !.usar_extras_b = u, !.k = 1,
                                 !.meses_despues_siembra = None, !.altitud = Malo],
             [ConsultaBase EXCEPT !.tipo = t, !.fase = f, !.usar_extras_b = u, !.k = 1,
                                 !.temp_media = Malo]} :
              t \in {"auto", "broca"}, f \in {NoneStr, "cosecha_poscosecha"}, u \in BOOLEAN}

Consultas ==
    ConsultasPuerta \cup ConsultasUnDominio \cup ConsultasInferidas
       \cup ConsultasExtras \cup ConsultasRetencion \cup ConsultasMalformadas

---------------------------------------------------------------------------
(* The pipeline as a state machine. An invocation p of run_cbr reads the   *)
(* files of params["data"] one by one (load_cases), computes its result,   *)
(* then reads and rewrites the retention target (append_case_to_yaml) and  *)
(* returns. Reading a file and rewriting a file are single steps.          *)

NoParams == <<>>

NoResp == <<>>

NoCall == [fn |-> "none"]

InitPipe(FS0) ==
    /\ fs \in FS0
    /\ pc = [p \in Procs |-> "idle"]
    /\ params = [p \in Procs |-> NoParams]
    /\ cases = [p \in Procs |-> <<>>]
    /\ idx = [p \in Procs |-> 1]
    /\ resp = [p \in Procs |-> NoResp]
    /\ cases_existing = [p \in Procs |-> <<>>]
    /\ saved_id = [p \in Procs |-> NoId]
    /\ ret = [p \in Procs |-> "pending"]
    /\ hist = <<>>

\* run_cbr(params) is called.
Start(p, Q) ==
    /\ pc[p] = "idle"
    /\ \E q \in Q : params' = [params EXCEPT ![p] = q]
    /\ pc' = [pc EXCEPT ![p] = "load"]
    /\ UNCHANGED <<fs, cases, idx, resp, cases_existing, saved_id, ret, hist, call>>

\* A plausible slip: the accumulator of load_cases kept between calls (a
\* module-level list), so a call starts from what the other call loaded.
LoadStep_compartido(p) ==
    /\ pc[p] = "load"
    /\ idx[p] <= Len(params[p].data)
    /\ LET f    == fs[params[p].data[idx[p]]]
           base == IF idx[p] = 1 THEN cases[CHOOSE q \in Procs : q # p] ELSE cases[p]
       IN IF f.kind = "unreadable"
          THEN /\ pc' = [pc EXCEPT ![p] = "done"]
               /\ ret' = [ret EXCEPT ![p] = "raised"]
               /\ UNCHANGED <<cases, idx>>
          ELSE /\ cases' = [cases EXCEPT ![p] = IF f.kind = "list" THEN base \o f.data ELSE base]
               /\ idx' = [idx EXCEPT ![p] = @ + 1]
               /\ UNCHANGED <<pc, ret>>
    /\ UNCHANGED <<fs, params, resp, cases_existing, saved_id, hist, call>>

\* load_cases: one pass of the loop over paths. A missing file and a file
\* that is not a list are skipped; a file that cannot be read or parsed
\* raises out of load_cases and run_cbr.
LoadStep(p) ==
    /\ pc[p] = "load"
    /\ idx[p] <= Len(params[p].data)
    /\ LET f == fs[params[p].data[idx[p]]]
       IN IF f.kind = "unreadable"
          THEN /\ pc' = [pc EXCEPT ![p] = "done"]
               /\ ret' = [ret EXCEPT ![p] = "raised"]
               /\ UNCHANGED <<cases, idx>>
          ELSE /\ cases' = [cases EXCEPT ![p] = IF f.kind = "list" THEN @ \o f.data ELSE @]
               /\ idx' = [idx EXCEPT ![p] = @ + 1]
               /\ UNCHANGED <<pc, ret>>
    /\ UNCHANGED <<fs, params, resp, cases_existing, saved_id, hist, call>>

\* A plausible slip: the computation goes on with no case loaded.
SinCasos_nunca(cs) == FALSE

\* `if not cases` of run_cbr.
SinCasos(cs) == cs = <<>>

\* run_cbr from the end of load_cases to the start of retention.
Compute(p) ==
    /\ pc[p] = "load"
    /\ idx[p] > Len(params[p].data)
    /\ IF SinCasos(cases[p])
       THEN /\ pc' = [pc EXCEPT ![p] = "done"]
            /\ ret' = [ret EXCEPT ![p] = "None"]
            /\ UNCHANGED resp
       ELSE IF Levanta(cases[p], params[p])
       THEN /\ pc' = [pc EXCEPT ![p] = "done"]
            /\ ret' = [ret EXCEPT ![p] = "raised"]
            /\ UNCHANGED resp
       ELSE /\ resp' = [resp EXCEPT ![p] = Calcular(cases[p], params[p])]
            /\ pc' = [pc EXCEPT ![p] =
                        IF params[p].save_case_to \notin {NoneStr, ""}
                        THEN "retain_read" ELSE "finish"]
            /\ UNCHANGED ret
    /\ UNCHANGED <<fs, params, cases, idx, cases_existing, saved_id, hist, call>>

\* append_case_to_yaml: the read of the target.
RetainRead(p) ==
    /\ pc[p] = "retain_read"
    /\ cases_existing' = [cases_existing EXCEPT ![p] = LeerExistentes(fs[params[p].save_case_to])]
    /\ hist' = Append(hist, [p |-> p, op |-> "read", path |-> params[p].save_case_to])
    /\ pc' = [pc EXCEPT ![p] = "retain_write"]
    /\ UNCHANGED <<fs, params, cases, idx, resp, saved_id, ret, call>>

\* append_case_to_yaml: the id, the append and the rewrite; a target that
\* cannot be written raises, which run_cbr catches.
RetainWrite(p) ==
    /\ pc[p] = "retain_write"
    /\ LET t == params[p].save_case_to
       IN IF fs[t].writable
          THEN /\ fs' = [fs EXCEPT ![t] =
                           [kind |-> "list",
                            data |-> Reescrito(cases_existing[p], OutCase(resp[p], params[p])),
                            writable |-> TRUE]]
               /\ saved_id' = [saved_id EXCEPT ![p] = SiguienteId(cases_existing[p])]
               /\ hist' = Append(hist, [p |-> p, op |-> "write", path |-> t])
          ELSE UNCHANGED <<fs, saved_id, hist>>
    /\ pc' = [pc EXCEPT ![p] = "finish"]
    /\ UNCHANGED <<params, cases, idx, resp, cases_existing, ret, call>>

\* run_cbr, step 5 and the return. With verbose the summary reads the
\* local `output` before it is assigned, which raises.
Finish(p) ==
    /\ pc[p] = "finish"
    /\ ret' = [ret EXCEPT ![p] = IF params[p].verbose THEN "raised" ELSE "output"]
    /\ pc' = [pc EXCEPT ![p] = "done"]
    /\ UNCHANGED <<fs, params, cases, idx, resp, cases_existing, saved_id, hist, call>>

\* The caller is ready for its next request.
Reset(p) ==
    /\ pc[p] = "done"
    /\ pc' = [pc EXCEPT ![p] = "idle"]
    /\ params' = [params EXCEPT ![p] = NoParams]
    /\ cases' = [cases EXCEPT ![p] = <<>>]
    /\ idx' = [idx EXCEPT ![p] = 1]
    /\ resp' = [resp EXCEPT ![p] = NoResp]
    /\ cases_existing' = [cases_existing EXCEPT ![p] = <<>>]
    /\ saved_id' = [saved_id EXCEPT ![p] = NoId]
    /\ ret' = [ret EXCEPT ![p] = "pending"]
    /\ hist' = SelectSeq(hist, LAMBDA e : e.p # p)
    /\ UNCHANGED <<fs, call>>

\* One request at a time, every kind of query, from every file system.
AlmacenesA == {Lista(q) : q \in SeqsSinRepetir(PoolA, MaxCases)}

FSInicial ==
    {FS(a, Ausente) : a \in AlmacenesA} \cup {FS(ArchivoAFijo, c) : c \in ArchivosC}

Init == InitPipe(FSInicial) /\ call = NoCall

Next ==
    \E p \in {1} :
       \/ Start(p, Consultas)
       \/ LoadStep(p)
       \/ Compute(p)
       \/ RetainRead(p)
       \/ RetainWrite(p)
       \/ Finish(p)

Spec == Init /\ [][Next]_vars

---------------------------------------------------------------------------
(* Requests one after another against one file system: the caller waits    *)
(* for run_cbr to return before it calls again. A request that retains is  *)
(* accepted while the target holds fewer than MaxStore records.            *)

\* Targets whose ids are pairwise distinct: absent, empty, in sequence, and
\* stores whose ids do not follow their length (a record removed by hand).
ArchivosSec ==
    {Ausente, Lista(<<>>), Lista(<<CasoNEW(1)>>), Lista(<<CasoNEW(2)>>),
     Lista(<<CasoNEW(1), CasoNEW(3)>>)}

ConsultasSec ==
    {[ConsultaBase EXCEPT !.tipo = t, !.save_case_to = s, !.k = 1] :
        t \in {"auto", "broca"}, s \in {NoneStr, "C"}}

StartAcotado(p, Q) ==
    /\ Start(p, Q)
    /\ params'[p].save_case_to # NoneStr =>
          Len(LeerExistentes(fs[params'[p].save_case_to])) < MaxStore

InitSec == InitPipe({FS(ArchivoAFijo, c) : c \in ArchivosSec}) /\ call = NoCall

NextSec ==
    \E p \in {1} :
       \/ StartAcotado(p, ConsultasSec)
       \/ LoadStep(p)
       \/ Compute(p)
       \/ RetainRead(p)
       \/ RetainWrite(p)
       \/ Finish(p)
       \/ Reset(p)

SpecSec == InitSec /\ [][NextSec]_vars

---------------------------------------------------------------------------
(* Two requests at once (the endpoint runs run_cbr on a pool of threads),  *)
(* each a single call.                                                     *)

ArchivosCarrera == {Ausente, Lista(<<CasoNEW(1)>>), Lista(<<CasoNEW(1), CasoNEW(2)>>)}

ConsultasCarrera ==
    {[ConsultaBase EXCEPT !.tipo = t, !.save_case_to = s, !.data = d, !.k = 1] :
        t \in {"auto", "broca"}, s \in {"C", "A"}, d \in {<<"A", "B">>, <<"A", "C">>}}

InitCarrera == InitPipe({FS(ArchivoAFijo, c) : c \in ArchivosCarrera}) /\ call = NoCall

NextCarrera ==
    \E p \in Procs :
       \/ Start(p, ConsultasCarrera)
       \/ LoadStep(p)
       \/ Compute(p)
       \/ RetainRead(p)
       \/ RetainWrite(p)
       \/ Finish(p)

SpecCarrera == InitCarrera /\ [][NextCarrera]_vars

---------------------------------------------------------------------------
(* Two calls of run_cbr against one file system, in every order and        *)
(* interleaving, with and without a retention target, the target loaded    *)
(* for retrieval or not.                                                   *)

ConsultasIndep ==
    {[ConsultaBase EXCEPT !.tipo = t, !.save_case_to = s, !.data = d, !.k = 2] :
        t \in {"auto", "fertilizacion_sin_analisis"}, s \in {NoneStr, "C"},
        d \in {<<"A", "B">>, <<"A", "C">>}}

InitIndep == InitPipe({FS(ArchivoAFijo, c) : c \in ArchivosCarrera}) /\ call = NoCall

NextIndep ==
    \E p \in Procs :
       \/ Start(p, ConsultasIndep)
       \/ LoadStep(p)
       \/ Compute(p)
       \/ RetainRead(p)
       \/ RetainWrite(p)
       \/ Finish(p)

SpecIndep == InitIndep /\ [][NextIndep]_vars

---------------------------------------------------------------------------
(* Single calls of the pure functions of the phase rules *)

AltitudEntrada == {None, Num(1400), Num(1499), Num(1500), Num(1678)}

MesEntrada == Range(MESES) \cup {"mes?"}

\* MDS in tenths: absent, 0, 0.4, 0.5, 0.6, 0.9, 1, 10, 24, 24.1, 30.
MDSFino == {None, Num(0), Num(4), Num(5), Num(6), Num(9), Num(10), Num(100),
            Num(240), Num(241), Num(300)}

LlamadasFase ==
    {[fn |-> "inferir_fase", altitud |-> a, mes |-> m, mds |-> d, done |-> FALSE,
      res |-> NoneStr] : a \in AltitudEntrada, m \in MesEntrada, d \in MDSFino}

LlamadasDominio ==
    {[fn |-> "dominio_aplica", dominio |-> dom, fase |-> f, mds |-> d, done |-> FALSE,
      res |-> <<FALSE, NoneStr>>] : dom \in Range(DOMINIOS), f \in Range(FASES), d \in MDSFino}

Call_inferir_fase ==
    /\ call.fn = "inferir_fase"
    /\ ~call.done
    /\ call' = [call EXCEPT !.done = TRUE,
                            !.res = inferir_fase(call.altitud, call.mes, call.mds)]
    /\ UNCHANGED pipeVars

Call_dominio_aplica ==
    /\ call.fn = "dominio_aplica"
    /\ ~call.done
    /\ call' = [call EXCEPT !.done = TRUE,
                            !.res = dominio_aplica(call.dominio, call.fase, call.mds)]
    /\ UNCHANGED pipeVars

InitFase ==
    /\ InitPipe({FS(ArchivoAFijo, Ausente)})
    /\ call \in LlamadasFase \cup LlamadasDominio

NextFase == Call_inferir_fase \/ Call_dominio_aplica

SpecFase == InitFase /\ [][NextFase]_vars

---------------------------------------------------------------------------
(* Single calls of the two scorers, on vectors with values in and out of   *)
(* range and with features absent                                         *)

VecTipico ==
    [temp_media |-> Num(176), humedad |-> Num(97), prec_total_mm |-> Num(1922),
     dias_lluvia |-> Num(18), brillo_solar |-> Num(95), altitud_msnm |-> Num(1678),
     sombra_pct |-> Num(25), mes_sin |-> Num(-5000), mes_cos |-> Num(8660),
     meses_despues_siembra |-> Num(100), edad_vivero_meses |-> Num(30),
     luna_fase |-> "creciente"]

VecOtro ==
    [temp_media |-> Num(210), humedad |-> Num(70), prec_total_mm |-> Num(800),
     dias_lluvia |-> Num(9), brillo_solar |-> Num(150), altitud_msnm |-> Num(1400),
     sombra_pct |-> Num(40), mes_sin |-> Num(8660), mes_cos |-> Num(5000),
     meses_despues_siembra |-> Num(60), edad_vivero_meses |-> Num(20),
     luna_fase |-> "llena"]

\* Every value outside the range of its feature.
VecExtremo ==
    [temp_media |-> Num(450), humedad |-> Num(10), prec_total_mm |-> Num(9000),
     dias_lluvia |-> Num(40), brillo_solar |-> Num(-5), altitud_msnm |-> Num(200),
     sombra_pct |-> Num(100), mes_sin |-> Num(2 * ONE), mes_cos |-> Num(-2 * ONE),
     meses_despues_siembra |-> Num(600), edad_vivero_meses |-> Num(90),
     luna_fase |-> "menguante"]

\* v with the features of S absent.
Nulados(v, S) ==
    [k \in DOMAIN v |-> IF k \in S THEN (IF k = "luna_fase" THEN NoneStr ELSE None) ELSE v[k]]

Mascaras ==
    {{}, Range(FEATURES)}
    \cup {{f} : f \in Range(FEATURES)}
    \cup {Range(FEATURES) \ {f} : f \in {"temp_media", "luna_fase"}}

VecsConsulta == {Nulados(v, S) : v \in {VecTipico, VecExtremo}, S \in Mascaras}

VecsCaso == {Nulados(v, S) : v \in {VecOtro, VecTipico}, S \in Mascaras}

\* A tier-B case vector: the features and the station name.
VecB(v, e) == [k \in DOMAIN v \cup {"estacion"} |-> IF k = "estacion" THEN e ELSE v[k]]

LlamadasSimA ==
    {[fn |-> "similarity_weighted_A", qvec |-> q, cvec |-> c, domain |-> d,
      done |-> FALSE, res |-> 0] :
        q \in VecsConsulta, c \in VecsCaso, d \in Range(DOMINIOS)}

LlamadasSimB ==
    {[fn |-> "similarity_weighted_B", qvec |-> q, cvec |-> VecB(c, e), query_alt |-> a,
      done |-> FALSE, res |-> 0] :
        q \in VecsConsulta, c \in VecsCaso, e \in {NoneStr, "Estacion_Tambo"},
        a \in {None, Num(1678), Num(1600)}}

\* Query altitudes at differences on both sides of every threshold of the
\* bonus, around 1500 m and around the altitude of Estacion_Tambo, absent,
\* and not a number.
LlamadasBono ==
    LET desvios == {0, 60, 61, 120, 121, 200, 201, -60, -61, -120, -121, -200, -201}
        alts    == {None, Malo} \cup {Num(1500 + d) : d \in desvios}
                      \cup {Num(1735 + d) : d \in desvios}
    IN {[fn |-> "station_bonus", query_alt |-> a, case_station |-> e, case_alt |-> c,
         done |-> FALSE, res |-> 0] :
           a \in alts,
           e \in {NoneStr, "Otra", "Estacion_Tambo", "Estacion_Piendamo"},
           c \in {None, Num(1500), Num(1400)}}

Call_similarity_weighted_A ==
    /\ call.fn = "similarity_weighted_A"
    /\ ~call.done
    /\ call' = [call EXCEPT !.done = TRUE,
                            !.res = similarity_weighted_A(call.qvec, call.cvec, call.domain)]
    /\ UNCHANGED pipeVars

Call_similarity_weighted_B ==
    /\ call.fn = "similarity_weighted_B"
    /\ ~call.done
    /\ call' = [call EXCEPT !.done = TRUE,
                            !.res = similarity_weighted_B(call.qvec, call.cvec, call.query_alt)]
    /\ UNCHANGED pipeVars

Call_station_bonus ==
    /\ call.fn = "station_bonus"
    /\ ~call.done
    /\ call' = [call EXCEPT !.done = TRUE,
                            !.res = station_bonus(call.query_alt, call.case_station,
                                                  call.case_alt)]
    /\ UNCHANGED pipeVars

\* The four phases, two of them also as a file may spell them, and the two
\* ways of a missing phase.
LunasEntrada ==
    {NoneStr, "", "nueva", "creciente", "llena", "menguante", " Llena ", "Nueva"}

LlamadasLuna ==
    {[fn |-> "sim_luna", a |-> a, b |-> b, done |-> FALSE, res |-> None] :
        a \in LunasEntrada, b \in LunasEntrada}

Call_sim_luna ==
    /\ call.fn = "sim_luna"
    /\ ~call.done
    /\ call' = [call EXCEPT !.done = TRUE, !.res = sim_luna(call.a, call.b)]
    /\ UNCHANGED pipeVars

InitSim ==
    /\ InitPipe({FS(ArchivoAFijo, Ausente)})
    /\ call \in LlamadasSimA \cup LlamadasSimB \cup LlamadasBono \cup LlamadasLuna

NextSim ==
    \/ Call_similarity_weighted_A
    \/ Call_similarity_weighted_B
    \/ Call_station_bonus
    \/ Call_sim_luna

SpecSim == InitSim /\ [][NextSim]_vars

---------------------------------------------------------------------------
(* Single calls of the fusion of recommendations, on ranked hits whose     *)
(* advice is drawn from a fixed set                                        *)

\* The most hits of a fusion call.
MaxHitsFusion == 2

L6 == <<"urea", " ", "6", " ", "MDS">>

L6Margen == <<" ", "urea", " ", "6", " ", "MDS", " ">>

L18 == <<"urea", " ", "18", "MDS">>

LUreaSinMarca == <<"Urea">>

LDap6 == <<"DAP", " ", "6", " ", "MDS">>

LUreaDap18 == <<"urea", " ", "DAP", " ", "18", " ", "MDS">>

LPodar == <<"Podar">>

LPodarMargen == <<" ", "Podar", " ">>

LCal == <<"Cal">>

LCalMargen == <<"Cal", " ">>

LBlanco == <<" ">>

\* recomendaciones of a case: technical and traditional lines.
RecsFusion ==
    {[tecnicas |-> <<L6>>, tradicionales |-> <<LCal>>],
     [tecnicas |-> <<L18>>, tradicionales |-> <<LCal, LCalMargen>>],
     [tecnicas |-> <<L18, L6>>, tradicionales |-> <<>>],
     [tecnicas |-> <<LUreaSinMarca>>, tradicionales |-> <<LPodar>>],
     [tecnicas |-> <<LUreaDap18>>, tradicionales |-> <<LPodar, LCal>>],
     [tecnicas |-> <<LDap6>>, tradicionales |-> <<LCal, LPodar>>],
     [tecnicas |-> <<LPodar, LPodarMargen>>, tradicionales |-> <<LPodar>>],
     [tecnicas |-> <<LBlanco, <<>>>>, tradicionales |-> <<LBlanco, LCal>>],
     [tecnicas |-> <<LUreaDap18, L6>>, tradicionales |-> <<>>],
     [tecnicas |-> <<>>, tradicionales |-> <<>>],
     [tecnicas |-> << <<"adaptar", " ", "sombra">>, <<"NPK">> >>, tradicionales |-> <<LPodarMargen>>],
     [tecnicas |-> <<L6Margen>>, tradicionales |-> <<LCal>>]}

\* The sequences over S of length at most n.
RECURSIVE SeqsHasta(_, _)
SeqsHasta(S, n) ==
    IF n = 0 THEN {<<>>}
    ELSE LET shorter == SeqsHasta(S, n - 1)
         IN shorter \cup {Append(q, x) : q \in shorter, x \in S}

\* Ranked hits (score, case); the fusion reads only the advice of the case.
HitsFusion ==
    SeqsHasta({[s |-> ONE, c |-> [recomendaciones |-> r]] : r \in RecsFusion}, MaxHitsFusion)

\* Query MDS in tenths: absent, 10, and 12 (as far from 6 as from 18).
MDSFusion == {None, Num(100), Num(120)}

LlamadasFert ==
    {[fn |-> "combinar_recs_fertilizacion", hits |-> h, mds_query |-> m, done |-> FALSE,
      res |-> <<>>] : h \in HitsFusion, m \in MDSFusion}

LlamadasRecs ==
    {[fn |-> "recomendaciones", dom |-> d, hits |-> h, aplica |-> a, mds_query |-> Num(100),
      done |-> FALSE, res |-> <<>>] :
        d \in Range(DOMINIOS), h \in HitsFusion, a \in BOOLEAN}

Call_combinar_recs_fertilizacion ==
    /\ call.fn = "combinar_recs_fertilizacion"
    /\ ~call.done
    /\ call' = [call EXCEPT !.done = TRUE,
                            !.res = combinar_recs_fertilizacion(call.hits, call.mds_query)]
    /\ UNCHANGED pipeVars

\* The fusion block of run_cbr for one domain.
Call_Recomendaciones ==
    /\ call.fn = "recomendaciones"
    /\ ~call.done
    /\ call' = [call EXCEPT !.done = TRUE,
                            !.res = Recomendaciones(call.dom, call.hits,
                                                    [aplica |-> call.aplica], call.mds_query)]
    /\ UNCHANGED pipeVars

\* The longest list of extras grouped in one call.
MaxExtras == 3

\* Extras as extras_from_B builds them: two categories and a missing one;
\* two texts, one of them also with a margin, and an empty text.
ExtrasFusion ==
    {[texto |-> t, categoria_b |-> c, estacion |-> "Otra", similitud |-> 957,
      id_caso |-> Id("B-", 1)] :
        t \in {LPodar, LPodarMargen, LCal, <<>>}, c \in {"manejo", "suelo", ""}}

LlamadasAgrupar ==
    {[fn |-> "agrupar_extras_B", extras |-> e, done |-> FALSE, res |-> <<>>] :
        e \in SeqsHasta(ExtrasFusion, MaxExtras)}

Call_agrupar_extras_B ==
    /\ call.fn = "agrupar_extras_B"
    /\ ~call.done
    /\ call' = [call EXCEPT !.done = TRUE, !.res = agrupar_extras_B(call.extras)]
    /\ UNCHANGED pipeVars

InitFusion ==
    /\ InitPipe({FS(ArchivoAFijo, Ausente)})
    /\ call \in LlamadasFert \cup LlamadasRecs \cup LlamadasAgrupar

NextFusion ==
    Call_combinar_recs_fertilizacion \/ Call_Recomendaciones \/ Call_agrupar_extras_B

SpecFusion == InitFusion /\ [][NextFusion]_vars

---------------------------------------------------------------------------
(* Properties *)

\* The invocation has returned its dict.
Returned(p) == pc[p] = "done" /\ ret[p] = "output"

\* The dict it returned.
Salida(p) == Output(resp[p], params[p], saved_id[p])

\* The loaded cases tagged d, in store order.
DelDominio(p, d) == SelectSeq(cases[p], LAMBDA c : c.tipo = d)

\* C1: in every response, a domain the gate rejects in the resolved phase has
\* no ranked hits, empty technical and traditional recommendations, and an
\* applicability entry with aplica = false and a reason that is not null.
C1_GatedDomainIsEmpty ==
    \A p \in Procs :
       Returned(p) =>
          \A d \in DOMAIN Salida(p).resultados_A :
             ~dominio_aplica(d, Salida(p).consulta.fase, params[p].meses_despues_siembra)[1] =>
                /\ resp[p].por_dom[d].klist = <<>>
                /\ Salida(p).resultados_A[d].hits = <<>>
                /\ Salida(p).resultados_A[d].recomendaciones.tecnicas = <<>>
                /\ Salida(p).resultados_A[d].recomendaciones.tradicionales = <<>>
                /\ Salida(p).resultados_A[d].aplicabilidad.aplica = FALSE
                /\ Salida(p).resultados_A[d].aplicabilidad.razon_no_aplica # NoneStr

\* A response in which a rejected domain has cases of its own in the store.
C1_Witness ==
    /\ Returned(1)
    /\ \E d \in DOMAIN Salida(1).resultados_A :
          /\ ~Salida(1).resultados_A[d].aplicabilidad.aplica
          /\ Len(DelDominio(1, d)) >= 2
          /\ params[1].k >= 2

\* C2: dominio_aplica answers <<True, None>> for fertilization whenever MDS is
\* present and between 1 and 24 months, in every phase.
C2_FertilizationOverride ==
    (/\ call.fn = "dominio_aplica"
     /\ call.done
     /\ call.dominio = "fertilizacion_sin_analisis"
     /\ ~IsNone(call.mds)
     /\ 10 <= Val(call.mds)
     /\ Val(call.mds) <= 240)
    => call.res = <<TRUE, NoneStr>>

\* Fertilization at 10 months in harvest/post-harvest, where the phase rule
\* alone would reject it.
C2_Witness ==
    /\ call.fn = "dominio_aplica"
    /\ call.done
    /\ call.dominio = "fertilizacion_sin_analisis"
    /\ call.fase = "cosecha_poscosecha"
    /\ call.mds = Num(100)
    /\ call.res[1]

\* The valid phases of each domain, as the claim lists them.
FasesValidas(dominio) ==
    CASE dominio = "almacigos" -> {"vivero_establecimiento"}
      [] dominio = "fertilizacion_sin_analisis" -> {"vivero_establecimiento", "floracion_llenado"}
      [] dominio = "broca" -> {"cosecha_poscosecha"}

\* C3: outside the fertilization MDS override, dominio_aplica answers
\* applicable exactly when the phase is one of the domain's valid phases, and
\* its reason is null exactly when it answers applicable.
C3_GateFollowsPhaseTable ==
    (/\ call.fn = "dominio_aplica"
     /\ call.done
     /\ ~(/\ call.dominio = "fertilizacion_sin_analisis"
          /\ ~IsNone(call.mds)
          /\ 10 <= Val(call.mds)
          /\ Val(call.mds) <= 240))
    => /\ call.res[1] = (call.fase \in FasesValidas(call.dominio))
       /\ (call.res[2] = NoneStr) = call.res[1]

\* Nursery in harvest/post-harvest: rejected, with a reason.
C3_Witness ==
    /\ call.fn = "dominio_aplica"
    /\ call.done
    /\ call.dominio = "almacigos"
    /\ call.fase = "cosecha_poscosecha"
    /\ call.res[1] = FALSE
    /\ call.res[2] # NoneStr

\* C4: with MDS present inferir_fase answers nursery up to 0.5 months,
\* flowering-filling up to 24 and harvest/post-harvest beyond, whatever the
\* altitude and the month; the answer is one of the three phases.
C4_PhaseFromMDS ==
    (call.fn = "inferir_fase" /\ call.done) =>
       /\ call.res \in Range(FASES)
       /\ ~IsNone(call.mds) =>
             /\ Val(call.mds) <= 5 => call.res = "vivero_establecimiento"
             /\ (5 < Val(call.mds) /\ Val(call.mds) <= 240) => call.res = "floracion_llenado"
             /\ Val(call.mds) > 240 => call.res = "cosecha_poscosecha"
             /\ \A a \in AltitudEntrada, m \in MesEntrada :
                   inferir_fase(a, m, call.mds) = call.res

\* MDS = 0.5 at 1400 m in August, where altitude and month say harvest.
C4_Witness ==
    /\ call.fn = "inferir_fase"
    /\ call.done
    /\ call.mds = Num(5)
    /\ call.altitud = Num(1400)
    /\ call.mes = "agosto"
    /\ call.res = "vivero_establecimiento"

\* C5: a response to a query with an explicit phase echoes that phase, and the
\* applicability of every domain is the gate's answer for that phase; without
\* an explicit phase the echoed phase is the inferred one.
C5_ExplicitPhaseWins ==
    \A p \in Procs :
       Returned(p) =>
          LET fase == IF params[p].fase \notin {NoneStr, ""}
                      THEN params[p].fase
                      ELSE inferir_fase(params[p].altitud, params[p].mes,
                                        params[p].meses_despues_siembra)
          IN /\ Salida(p).consulta.fase = fase
             /\ \A d \in DOMAIN Salida(p).resultados_A :
                   LET ap == dominio_aplica(d, fase, params[p].meses_despues_siembra)
                   IN /\ Salida(p).resultados_A[d].aplicabilidad.aplica = ap[1]
                      /\ Salida(p).resultados_A[d].aplicabilidad.razon_no_aplica = ap[2]

\* An explicit nursery phase with MDS = 30, from which harvest would be
\* inferred: nursery care is applicable and borer is not.
C5_Witness ==
    /\ Returned(1)
    /\ params[1].tipo = "auto"
    /\ params[1].fase = "vivero_establecimiento"
    /\ params[1].meses_despues_siembra = Num(300)
    /\ Salida(1).consulta.fase = "vivero_establecimiento"
    /\ Salida(1).resultados_A["almacigos"].aplicabilidad.aplica
    /\ ~Salida(1).resultados_A["broca"].aplicabilidad.aplica

\* The score top_k_A gives a case.
Puntaje(p, d, c) ==
    similarity_weighted_A(extract_input_vector(params[p]), extract_case_vector_A(c), d)

\* The place of a case in the loaded store.
Lugar(p, c) == CHOOSE i \in DOMAIN cases[p] : cases[p][i] = c

\* C6: for an applicable domain the hits are min(max(1, k), n) of the n loaded
\* cases of that domain, each once and with its own score, in non-increasing
\* score order; no case left out scores higher than a hit, and among equal
\* scores the store order is kept. The response lists them in that order.
C6_TopK ==
    \A p \in Procs :
       Returned(p) =>
          \A d \in DOMAIN resp[p].por_dom :
             resp[p].por_dom[d].aplicabilidad.aplica =>
                LET klist == resp[p].por_dom[d].klist
                    cand  == DelDominio(p, d)
                    out   == {c \in Range(cand) : \A i \in DOMAIN klist : klist[i].c # c}
                IN /\ Len(klist) = Min(Max(1, params[p].k), Len(cand))
                   /\ \A i \in DOMAIN klist :
                         /\ klist[i].c \in Range(cand)
                         /\ klist[i].c.tipo = d
                         /\ klist[i].s = Puntaje(p, d, klist[i].c)
                         /\ Salida(p).resultados_A[d].hits[i].id = klist[i].c.id
                         /\ Salida(p).resultados_A[d].hits[i].tipo = d
                   /\ Len(Salida(p).resultados_A[d].hits) = Len(klist)
                   /\ \A i, j \in DOMAIN klist :
                         i < j =>
                            /\ klist[i].c # klist[j].c
                            /\ klist[i].s >= klist[j].s
                            /\ Salida(p).resultados_A[d].hits[i].similitud
                                  >= Salida(p).resultados_A[d].hits[j].similitud
                            /\ klist[i].s = klist[j].s =>
                                  Lugar(p, klist[i].c) < Lugar(p, klist[j].c)
                   /\ \A c \in out, i \in DOMAIN klist :
                         /\ Puntaje(p, d, c) <= klist[i].s
                         /\ Puntaje(p, d, c) = klist[i].s =>
                               Lugar(p, klist[i].c) < Lugar(p, c)

\* Three fertilization cases, two of them with equal scores, and k = 2; the
\* two hits are the tied pair, in store order.
C6_Witness ==
    /\ Returned(1)
    /\ params[1].k = 2
    /\ "fertilizacion_sin_analisis" \in DOMAIN resp[1].por_dom
    /\ Len(DelDominio(1, "fertilizacion_sin_analisis")) = 3
    /\ LET klist == resp[1].por_dom["fertilizacion_sin_analisis"].klist
       IN /\ Len(klist) = 2
          /\ klist[1].s = klist[2].s
          /\ klist[1].c.id = Id("A-", 2)
          /\ klist[2].c.id = Id("A-", 1)

\* k below 1: one hit all the same.
C6_WitnessKBelowOne ==
    /\ Returned(1)
    /\ params[1].k < 1
    /\ \E d \in DOMAIN resp[1].por_dom :
          Len(resp[1].por_dom[d].klist) = 1 /\ Len(DelDominio(1, d)) >= 2

\* The records a file holds: none unless it parses to a list.
Registros(f) == IF f.kind = "list" THEN f.data ELSE <<>>

\* The retention events of hist on path t.
Eventos(t, op) == SelectSeq(hist, LAMBDA e : e.path = t /\ e.op = op)

\* Both invocations read target t before either rewrote it, and both rewrote it.
AmbosLeenAntes(t) ==
    /\ \A p \in Procs : \E i \in DOMAIN hist : hist[i] = [p |-> p, op |-> "read", path |-> t]
    /\ \A p \in Procs : \E i \in DOMAIN hist : hist[i] = [p |-> p, op |-> "write", path |-> t]
    /\ \A i, j \in DOMAIN hist :
          (hist[i].path = t /\ hist[j].path = t /\ hist[i].op = "read" /\ hist[j].op = "write")
             => i < j

\* The record invocation p retains.
CasoRetenido(p) == [OutCase(resp[p], params[p]) EXCEPT !.id = saved_id[p]]

\* C7: when two invocations retain into the same store and both read it before
\* either rewrites it, the store ends as the records read plus the case of the
\* last writer alone, one record longer, and both report the same id.
C7_LastWriterWins ==
    (/\ \A p \in Procs : pc[p] = "done"
     /\ params[1].save_case_to = params[2].save_case_to
     /\ AmbosLeenAntes(params[1].save_case_to))
    => LET t      == params[1].save_case_to
           first  == Eventos(t, "write")[1].p
           last   == Eventos(t, "write")[2].p
           previo == cases_existing[last]
       IN /\ cases_existing[first] = previo
          /\ fs[t].kind = "list"
          /\ fs[t].data = Append(previo, CasoRetenido(last))
          /\ Len(fs[t].data) = Len(previo) + 1
          /\ CasoRetenido(first) # CasoRetenido(last) =>
                CasoRetenido(first) \notin Range(fs[t].data)
          /\ saved_id[1] = saved_id[2]
          /\ saved_id[1] # NoId

\* Both read a store of two records, then both rewrote it, with different
\* queries: the store holds three records and the first writer's is not one.
C7_Witness ==
    /\ \A p \in Procs : pc[p] = "done"
    /\ params[1].save_case_to = "C"
    /\ params[2].save_case_to = "C"
    /\ AmbosLeenAntes("C")
    /\ params[1].tipo # params[2].tipo
    /\ Len(cases_existing[1]) = 2
    /\ Len(fs["C"].data) = 3
    /\ saved_id[1] = saved_id[2]
    /\ CasoRetenido(Eventos("C", "write")[1].p) \notin Range(fs["C"].data)

\* NEW- and m to four digits, zero padded (m below 10000).
Esperado(m) ==
    [prefix |-> "NEW-",
     digits |-> <<m \div 1000, (m \div 100) % 10, (m \div 10) % 10, m % 10>>]

\* C8: the rewrite of a target that holds n records (none when it is absent,
\* unreadable or not a list) gives the new case the id NEW-(n+1) in four
\* digits, reports that id, and stores the case under it; it succeeds
\* whenever the target can be written.
C8_RetainedId ==
    [][\A p \in Procs :
          (pc[p] = "retain_write" /\ pc'[p] = "finish") =>
             LET t == params[p].save_case_to
                 n == Len(Registros(fs[t]))
             IN IF fs[t].writable
                THEN /\ saved_id'[p] = Esperado(n + 1)
                     /\ fs'[t].kind = "list"
                     /\ fs'[t].data[Len(fs'[t].data)].id = Esperado(n + 1)
                ELSE saved_id'[p] = NoId]_vars

\* A store of three records received NEW-0004.
C8_Witness ==
    /\ Returned(1)
    /\ saved_id[1] = [prefix |-> "NEW-", digits |-> <<0, 0, 0, 4>>]
    /\ Len(fs[params[1].save_case_to].data) = 4
    /\ fs[params[1].save_case_to].data[4].id = saved_id[1]

\* An absent target received NEW-0001.
C8_WitnessEmpty ==
    /\ Returned(1)
    /\ saved_id[1] = [prefix |-> "NEW-", digits |-> <<0, 0, 0, 1>>]
    /\ fs[params[1].save_case_to].data = <<CasoRetenido(1)>>

\* A step that rewrites file f appends exactly one record to it.
SoloAnexa(f) ==
    /\ fs'[f].kind = "list"
    /\ Len(fs'[f].data) = Len(Registros(fs[f])) + 1
    /\ SubSeq(fs'[f].data, 1, Len(Registros(fs[f]))) = Registros(fs[f])

\* A successful retention by p in this step.
RetieneAhora(p) == pc[p] = "retain_write" /\ pc'[p] = "finish" /\ saved_id'[p] # NoId

\* C9 as amended: a successful retention keeps every record of the target, in
\* order and unchanged, and adds exactly one at the end; and the pipeline
\* writes no file but the retention target of a successful retention.
C9_AppendOnly ==
    [][/\ \A p \in Procs : RetieneAhora(p) => SoloAnexa(params[p].save_case_to)
       /\ \A f \in Paths :
             fs'[f] # fs[f] => \E p \in Procs : RetieneAhora(p) /\ params[p].save_case_to = f]_vars

\* C9 as claimed: the same, and no store loaded for retrieval is ever written.
C9_LoadedStoresNeverWritten ==
    [][/\ \A p \in Procs : RetieneAhora(p) => SoloAnexa(params[p].save_case_to)
       /\ \A p \in Procs :
             pc[p] # "idle" => \A i \in DOMAIN params[p].data :
                                  fs'[params[p].data[i]] = fs[params[p].data[i]]]_vars

\* A retention into a store of three records that was also loaded for
\* retrieval: the three are kept and a fourth follows them.
C9_Witness ==
    /\ Returned(1)
    /\ saved_id[1] # NoId
    /\ params[1].save_case_to \in Range(params[1].data)
    /\ Len(fs[params[1].save_case_to].data) = 4
    /\ SubSeq(fs[params[1].save_case_to].data, 1, 3) = cases_existing[1]

\* The ids of the records of file f are pairwise distinct.
IdsDistintos(f) ==
    \A i, j \in DOMAIN Registros(f) : i # j => Registros(f)[i].id # Registros(f)[j].id

\* C10 as claimed: from stores whose ids are pairwise distinct, the ids of
\* every store stay pairwise distinct through any sequence of retentions
\* made one after another.
C10_IdsStayUnique == \A f \in Paths : IdsDistintos(fs[f])

\* The retention target of p cannot be read or cannot be written.
DestinoFallido(p) ==
    LET t == params[p].save_case_to
    IN fs[t].kind = "unreadable" \/ ~fs[t].writable

\* The response holds the query echo, a result for each domain asked, and
\* the extras.
RespuestaCompleta(p) ==
    /\ resp'[p] # NoResp
    /\ resp'[p].fase_actual \in Range(FASES)
    /\ DOMAIN resp'[p].por_dom = Range(Dominios(params[p]))

\* C11 as claimed: when the retention target is unreadable or unwritable,
\* run_cbr (called as the API calls it) leaves the retained id null, and it
\* returns the complete response instead of raising.
C11_FailedRetentionIsNull ==
    [][\A p \in Procs :
          /\ (pc[p] = "retain_write" /\ pc'[p] = "finish" /\ ~params[p].verbose
                /\ DestinoFallido(p))
             => saved_id'[p] = NoId
          /\ (pc[p] = "finish" /\ pc'[p] = "done" /\ ~params[p].verbose)
             => (ret'[p] = "output" /\ RespuestaCompleta(p))]_vars

\* No path of the request holds a record: each is absent, unreadable, not a
\* list or an empty list.
NadaQueCargar(p) ==
    \A i \in DOMAIN params[p].data : Registros(fs[params[p].data[i]]) = <<>>

\* Invocation p has rewritten a file.
HaEscrito(p) == \E i \in DOMAIN hist : hist[i].p = p /\ hist[i].op = "write"

\* C12: when no path of the request yields a case, run_cbr builds no
\* response, returns none, and does not read or rewrite the retention target,
\* even when one is named.
C12_NoCasesNoResponse ==
    \A p \in Procs :
       (pc[p] \notin {"idle", "load"} /\ NadaQueCargar(p)) =>
          /\ pc[p] = "done"
          /\ ret[p] \in {"None", "raised"}
          /\ resp[p] = NoResp
          /\ saved_id[p] = NoId
          /\ ~HaEscrito(p)

\* A request naming a retention target found only an empty store and a
\* missing one, and returned nothing.
C12_Witness ==
    /\ pc[1] = "done"
    /\ ret[1] = "None"
    /\ NadaQueCargar(1)
    /\ params[1].save_case_to = "C"
    /\ params[1].data = <<"A", "C">>
    /\ fs["A"] = Lista(<<>>)
    /\ fs["C"] = Ausente

\* The records of the first n paths of the request, in path order.
RECURSIVE CargaEsperada(_, _)
CargaEsperada(p, n) ==
    IF n = 0 THEN <<>>
    ELSE CargaEsperada(p, n - 1) \o Registros(fs[params[p].data[n]])

\* C13 as claimed: a source that is missing, unreadable or not a list is
\* skipped: the load always reaches the end of the path list, and what it
\* has gathered is the records of the loadable sources in path order.
C13_BadSourceIsSkipped ==
    \A p \in Procs :
       /\ pc[p] = "load" => cases[p] = CargaEsperada(p, idx[p] - 1)
       /\ pc[p] \notin {"idle", "load"} => idx[p] = Len(params[p].data) + 1

\* The numeric fields of a query.
CamposNumericos ==
    {"altitud", "sombra", "temp_media", "humedad", "prec_total_mm", "dias_lluvia",
     "brillo_solar", "meses_despues_siembra", "edad_vivero_meses"}

TieneMalformado(ps) == \E c \in CamposNumericos : EsMalo(ps[c])

\* The query with every malformed numeric field made absent.
Saneada(ps) ==
    [c \in DOMAIN ps |-> IF c \in CamposNumericos /\ EsMalo(ps[c]) THEN None ELSE ps[c]]

\* C14 as claimed: a query with a non-numeric value in a numeric field, once
\* cases are loaded, is answered (run_cbr called as the API calls it does not
\* raise), and the answer is the one the query gets with that field absent.
C14_MalformedFieldIsAbsent ==
    \A p \in Procs :
       (/\ pc[p] = "done"
        /\ TieneMalformado(params[p])
        /\ ~params[p].verbose
        /\ idx[p] = Len(params[p].data) + 1
        /\ cases[p] # <<>>)
       => /\ ret[p] = "output"
          /\ resp[p] = Calcular(cases[p], Saneada(params[p]))

\* The weights the call scores with.
PesosDe(c) == IF c.fn = "similarity_weighted_A" THEN WEIGHTS(c.domain) ELSE WEIGHTS_B

\* Feature k has a value on both sides.
Comparable(q, c, k) ==
    IF k = "luna_fase"
    THEN q[k] \notin {NoneStr, ""} /\ c[k] \notin {NoneStr, ""}
    ELSE ~IsNone(q[k]) /\ ~IsNone(c[k])

\* C15: every score of the tier-A and the tier-B scorer lies in [0, 1], and
\* it is 0 when no weighted feature has a value on both sides.
C15_ScoreInUnitInterval ==
    (call.fn \in {"similarity_weighted_A", "similarity_weighted_B"} /\ call.done) =>
       /\ 0 <= call.res
       /\ call.res <= ONE
       /\ (\A k \in DOMAIN PesosDe(call) : ~Comparable(call.qvec, call.cvec, k))
             => call.res = 0

\* A scored pair whose only comparable feature is the temperature, out of
\* range on the query side.
C15_Witness ==
    /\ call.fn = "similarity_weighted_A"
    /\ call.done
    /\ call.qvec = Nulados(VecExtremo, Range(FEATURES) \ {"temp_media"})
    /\ call.cvec = VecTipico
    /\ call.res > 0
    /\ call.res < ONE

\* A scored pair with nothing comparable.
C15_WitnessNadaComparable ==
    /\ call.fn = "similarity_weighted_B"
    /\ call.done
    /\ \A k \in DOMAIN WEIGHTS_B : ~Comparable(call.qvec, call.cvec, k)
    /\ call.res = 0

\* The sum of F over the finite set S.
RECURSIVE Suma(_, _)
Suma(F(_), S) ==
    IF S = {} THEN 0
    ELSE LET x == CHOOSE y \in S : TRUE
         IN F(x) + Suma(F, S \ {x})

\* The similarity of one comparable feature.
SimDe(q, c, k) ==
    IF k = "luna_fase" THEN Val(sim_luna(q[k], c[k])) ELSE Val(sim_numeric(q[k], c[k], k))

\* The weighted mean of the similarities over the comparable features other
\* than f.
Renormalizada(q, c, W, f) ==
    LET K   == {k \in DOMAIN W \ {f} : Comparable(q, c, k)}
        num == Suma(LAMBDA k : W[k] * SimDe(q, c, k), K)
        den == Suma(LAMBDA k : W[k], K)
    IN IF den = 0 THEN 0 ELSE num \div den

\* Feature k has no value in vector v.
FaltaEn(v, k) == IF k = "luna_fase" THEN v[k] = NoneStr ELSE IsNone(v[k])

\* C16: when a weighted feature f is absent on both sides, the tier-A score
\* is the sum of weight * similarity over the other comparable features
\* divided by the sum of their weights: f leaves both sums.
C16_Renormalization ==
    (call.fn = "similarity_weighted_A" /\ call.done) =>
       \A f \in DOMAIN WEIGHTS(call.domain) :
          (FaltaEn(call.qvec, f) /\ FaltaEn(call.cvec, f))
          => call.res = Renormalizada(call.qvec, call.cvec, WEIGHTS(call.domain), f)

\* The temperature, the heaviest feature of the borer weights, is absent on
\* both sides and the score is that of the other features, above zero.
C16_Witness ==
    /\ call.fn = "similarity_weighted_A"
    /\ call.done
    /\ call.domain = "broca"
    /\ call.qvec = Nulados(VecTipico, {"temp_media"})
    /\ call.cvec = Nulados(VecOtro, {"temp_media"})
    /\ call.res = Renormalizada(call.qvec, call.cvec, WEIGHTS("broca"), "temp_media")
    /\ call.res > 0

\* The components of the vocabulary, as extraer_componentes names them.
Componentes == {"urea", "dap", "kcl", "npk", "mgo"}

\* <<i, j>>: line j of the technical advice of hit i; the non-empty ones are
\* the lines the fertilization fusion looks at, trimmed.
PosTecnicas(hits) ==
    UNION {{<<i, j>> : j \in {n \in DOMAIN hits[i].c.recomendaciones.tecnicas :
                                 hits[i].c.recomendaciones.tecnicas[n] # <<>>}} :
              i \in DOMAIN hits}

TextoEn(hits, pos) == Strip(hits[pos[1]].c.recomendaciones.tecnicas[pos[2]])

\* The candidates of a component: the lines that mention it.
CandidatasDe(hits, comp) ==
    {pos \in PosTecnicas(hits) : comp \in extraer_componentes(TextoEn(hits, pos))}

\* The distance of a line to the query MDS, in tenths; 999 months when the
\* line has no marker or the query no MDS.
Distancia(l, q) ==
    LET m == extraer_mds_de_texto(l)
    IN IF IsNone(q) \/ IsNone(m) THEN 9990 ELSE Abs(Val(q) - Val(m))

\* a comes before b: a higher ranked hit, or an earlier line of the same hit.
Antes(a, b) == a[1] < b[1] \/ (a[1] = b[1] /\ a[2] < b[2])

\* The candidate of comp closest to the query MDS, the earliest of them.
Ganadora(hits, q, comp) ==
    LET P    == CandidatasDe(hits, comp)
        D(x) == Distancia(TextoEn(hits, x), q)
    IN TextoEn(hits, CHOOSE a \in P : \A b \in P \ {a} :
                        D(a) < D(b) \/ (D(a) = D(b) /\ Antes(a, b)))

FertHecha == call.fn = "combinar_recs_fertilizacion" /\ call.done

\* C17: in the fertilization fusion the line kept for a component is, among
\* the technical lines that mention it, the one whose marker is closest to the
\* query MDS (999 months without a marker or without a query MDS), the one of
\* the higher ranked hit on equal distance; a line that mentions only that
\* component and is not the winner is not in the output.
C17_ClosestMarkerWins ==
    FertHecha =>
       \A comp \in Componentes :
          CandidatasDe(call.hits, comp) # {} =>
             LET g == Ganadora(call.hits, call.mds_query, comp)
             IN /\ g \in Range(call.res)
                /\ \A b \in CandidatasDe(call.hits, comp) :
                      (extraer_componentes(TextoEn(call.hits, b)) = {comp}
                         /\ TextoEn(call.hits, b) # g)
                      => TextoEn(call.hits, b) \notin Range(call.res)

\* Urea lines marked 18 MDS and 6 MDS, in that order, and a query MDS of 10:
\* only the 6 MDS line is left.
C17_Witness ==
    /\ FertHecha
    /\ call.mds_query = Num(100)
    /\ Len(call.hits) = 1
    /\ call.hits[1].c.recomendaciones.tecnicas = <<L18, L6>>
    /\ call.res = <<L6>>

\* Equal distance: the 18 MDS line of the first hit stays, the 6 MDS line of
\* the second goes.
C17_WitnessEmpate ==
    /\ FertHecha
    /\ call.mds_query = Num(120)
    /\ Len(call.hits) = 2
    /\ call.hits[1].c.recomendaciones.tecnicas = <<L18>>
    /\ call.hits[2].c.recomendaciones.tecnicas = <<L6>>
    /\ call.res = <<L18>>

\* The lines without a component.
Genericas(hits) ==
    {TextoEn(hits, pos) : pos \in {x \in PosTecnicas(hits) :
                                      extraer_componentes(TextoEn(hits, x)) = {}}}

\* The output is the generic lines and the winner of each component, each
\* once, in ascending order.
GenericasMasGanadoras ==
    /\ Range(call.res) =
          Genericas(call.hits)
             \cup {Ganadora(call.hits, call.mds_query, comp) :
                      comp \in {c \in Componentes : CandidatasDe(call.hits, c) # {}}}
    /\ \A i, j \in DOMAIN call.res : i < j => LineLess(call.res[i], call.res[j])

\* C18 as amended: the fertilization technical output is exactly the generic
\* lines plus the winner of each component; every output line that mentions
\* a component is the winner of one of the components it mentions, so there
\* are at most as many such lines as components.
C18_GenericPlusWinners ==
    FertHecha =>
       /\ GenericasMasGanadoras
       /\ \A l \in Range(call.res) :
             extraer_componentes(l) # {} =>
                \E comp \in extraer_componentes(l) :
                   l = Ganadora(call.hits, call.mds_query, comp)
       /\ Cardinality({l \in Range(call.res) : extraer_componentes(l) # {}})
             <= Cardinality(Componentes)

\* C18 as claimed: the same output, and for every component at most one
\* output line mentions it.
C18_OneLinePerComponent ==
    FertHecha =>
       /\ GenericasMasGanadoras
       /\ \A comp \in Componentes :
             Cardinality({l \in Range(call.res) : comp \in extraer_componentes(l)}) <= 1

\* A line that mentions urea and DAP wins for DAP while another line wins
\* for urea: both are in the output and both mention urea.
C18_Witness ==
    /\ FertHecha
    /\ call.mds_query = Num(100)
    /\ LUreaDap18 \in Range(call.res)
    /\ L6 \in Range(call.res)
    /\ Ganadora(call.hits, call.mds_query, "urea") = L6
    /\ Ganadora(call.hits, call.mds_query, "dap") = LUreaDap18

\* The position of the first occurrence of x in q.
PrimeraPos(q, x) == CHOOSE i \in DOMAIN q : q[i] = x /\ \A j \in 1..(i - 1) : q[j] # x

\* out holds every non-empty trimmed line of src once, in the order of the
\* first occurrences.
FusionGenerica(out, src) ==
    LET t == MapSeq(Strip, src)
    IN /\ Range(out) = Range(t) \ {<<>>}
       /\ \A i, j \in DOMAIN out : i < j => PrimeraPos(t, out[i]) < PrimeraPos(t, out[j])

\* C19: for nursery and borer both lists, and for fertilization the
\* traditional list, hold every distinct non-empty trimmed line of the hits
\* exactly once, in the order of first occurrence over the hits in rank
\* order; each list is merged on its own.
C19_GenericFusion ==
    (call.fn = "recomendaciones" /\ call.done /\ call.aplica) =>
       /\ FusionGenerica(call.res.tradicionales, LineasTradicionales(call.hits))
       /\ call.dom # "fertilizacion_sin_analisis"
             => FusionGenerica(call.res.tecnicas, LineasTecnicas(call.hits))

\* Two hits with repeated and untrimmed lines; "Podar" is in both lists of
\* the output, once in each.
C19_Witness ==
    /\ call.fn = "recomendaciones"
    /\ call.done
    /\ call.aplica
    /\ call.dom = "almacigos"
    /\ Len(call.hits) = 2
    /\ call.hits[1].c.recomendaciones.tecnicas = <<LPodar, LPodarMargen>>
    /\ call.hits[2].c.recomendaciones.tradicionales = <<LCal, LPodar>>
    /\ call.res = [tecnicas |-> <<LPodar, LDap6>>, tradicionales |-> <<LPodar, LCal>>]

\* C20: with the selector auto the results are keyed by exactly the three
\* domains, with a single domain by exactly that one; each entry holds hits,
\* recommendations and applicability, and no more than max(1, k) hits.
C20_ResultKeys ==
    \A p \in Procs :
       Returned(p) =>
          LET out == Salida(p).resultados_A
          IN /\ DOMAIN out = IF params[p].tipo = "auto"
                             THEN {"almacigos", "fertilizacion_sin_analisis", "broca"}
                             ELSE {params[p].tipo}
             /\ \A d \in DOMAIN out :
                   /\ DOMAIN out[d] = {"hits", "recomendaciones", "aplicabilidad"}
                   /\ DOMAIN out[d].recomendaciones = {"tecnicas", "tradicionales"}
                   /\ out[d].aplicabilidad.aplica \in BOOLEAN
                   /\ Len(out[d].hits) <= Max(1, params[p].k)

\* Selector auto, k = 2 and three fertilization cases loaded: three keys, and
\* the fertilization entry has two hits.
C20_Witness ==
    /\ Returned(1)
    /\ params[1].tipo = "auto"
    /\ params[1].k = 2
    /\ Len(DelDominio(1, "fertilizacion_sin_analisis")) = 3
    /\ Cardinality(DOMAIN Salida(1).resultados_A) = 3
    /\ Len(Salida(1).resultados_A["fertilizacion_sin_analisis"].hits) = 2

\* A single-domain selector: one key.
C20_WitnessUnDominio ==
    /\ Returned(1)
    /\ params[1].tipo = "broca"
    /\ DOMAIN Salida(1).resultados_A = {"broca"}

---------------------------------------------------------------------------
(* Retained cases, tier B, lunar phase, phase lookup, verbose, endpoint    *)

\* The domain tags a case record may carry.
TagsDeCaso == {"almacigos", "fertilizacion_sin_analisis", "broca", "historico"}

\* The case-record invariant: a case tag, and each domain payload populated
\* only under its own tag.
CasoBienFormado(c) ==
    /\ c.tipo \in TagsDeCaso
    /\ c.fertilizacion_sin_suelo # <<>> => c.tipo = "fertilizacion_sin_analisis"
    /\ c.almacigos_meta # <<>> => c.tipo = "almacigos"

\* C21 as claimed: every case written by retention satisfies the case-record
\* invariant, whatever the selector, auto included.
C21_RetainedCaseInvariant ==
    [][\A p \in Procs :
          RetieneAhora(p) =>
             LET d == fs'[params[p].save_case_to].data
             IN CasoBienFormado(d[Len(d)])]_vars

\* A case of tier B: tagged historical or carrying a station name.
EsDeB(c) == c.tipo = "historico" \/ c.contexto.estacion \notin {NoneStr, ""}

\* The top of tier B for the request of p, and tier B with no limit.
TopB(p) == extras_from_B(cases[p], params[p], params[p].kB)[2]

TodosB(p) == extras_from_B(cases[p], params[p], Len(cases[p]) + 1)[2]

\* The ids of the cases the extras come from, in order of appearance.
IdsDeExtras(ex) == OrderedUnique([i \in DOMAIN ex |-> ex[i].id_caso])

\* C22: tier B considers exactly the loaded cases tagged historical or
\* carrying a station name and keeps the min(max(1, kB), n) best of them in
\* non-increasing score order; the extras of the response come from those
\* cases whatever the gate of tier A decided; without the use-extras flag the
\* raw and the grouped extras are both empty.
C22_TierB ==
    [][\A p \in Procs :
          (pc[p] = "load" /\ resp'[p] # NoResp) =>
             IF ~params[p].usar_extras_b
             THEN resp'[p].extras = <<>> /\ resp'[p].extras_agrupados = <<>>
             ELSE LET top == TopB(p)
                      all == TodosB(p)
                      deB == SelectSeq(cases[p], EsDeB)
                      ex  == resp'[p].extras
                  IN /\ {all[i].c : i \in DOMAIN all} = Range(deB)
                     /\ Len(all) = Len(deB)
                     /\ Len(top) = Min(Max(1, params[p].kB), Len(deB))
                     /\ \A i \in DOMAIN top :
                           /\ top[i].c \in Range(deB)
                           /\ \A j \in DOMAIN all :
                                 all[j].s > top[i].s => \E n \in DOMAIN top : top[n] = all[j]
                     /\ \A i \in 1..(Len(top) - 1) : top[i].s >= top[i + 1].s
                     /\ IdsDeExtras(ex) = [i \in DOMAIN top |-> top[i].c.id]
                     /\ \A i \in DOMAIN ex :
                           \E j \in DOMAIN top :
                              /\ ex[i].id_caso = top[j].c.id
                              /\ ex[i].similitud = Round3(top[j].s)]_vars

\* A borer request in the nursery phase: tier A is gated out, and tier B
\* with kB = 1 gives the extras of the best of three cases, which is not the
\* first in store order.
C22_Witness ==
    /\ Returned(1)
    /\ params[1].tipo = "broca"
    /\ ~resp[1].por_dom["broca"].aplicabilidad.aplica
    /\ params[1].usar_extras_b
    /\ params[1].kB = 1
    /\ Len(SelectSeq(cases[1], EsDeB)) = 3
    /\ IdsDeExtras(resp[1].extras) = <<Id("B-", 1)>>

\* kB = 0 behaves as 1, and kB = 2 keeps two of three in score order; one of
\* the two carries a station name and no tag.
C22_WitnessKB ==
    /\ Returned(1)
    /\ params[1].usar_extras_b
    /\ \/ params[1].kB = 0 /\ Len(TopB(1)) = 1
       \/ /\ params[1].kB = 2
          /\ Len(TopB(1)) = 2
          /\ TopB(1)[1].s > TopB(1)[2].s
          /\ TopB(1)[2].c.tipo = NoneStr

\* The flag off: no extras although tier B has cases.
C22_WitnessSinExtras ==
    /\ Returned(1)
    /\ ~params[1].usar_extras_b
    /\ Len(SelectSeq(cases[1], EsDeB)) = 3
    /\ Salida(1).extras_B_raw = <<>>
    /\ Salida(1).extras_B_agrupados = <<>>

\* The category an extra is grouped under, and its text without margins.
CategoriaDe(e) == IF e.categoria_b = "" THEN "general" ELSE e.categoria_b

TextoDe(e) == Strip(e.texto)

\* The position of the first extra of category c with text t.
PrimerExtra(ex, c, t) ==
    CHOOSE i \in DOMAIN ex :
       /\ CategoriaDe(ex[i]) = c /\ TextoDe(ex[i]) = t
       /\ \A j \in 1..(i - 1) : ~(CategoriaDe(ex[j]) = c /\ TextoDe(ex[j]) = t)

\* g groups the extras ex: one entry per category, each the distinct
\* non-empty texts of the extras of that category in first-occurrence order.
Agrupa(g, ex) ==
    /\ \A i, j \in DOMAIN g : i # j => g[i][1] # g[j][1]
    /\ \A i \in DOMAIN ex :
          TextoDe(ex[i]) # <<>> =>
             \E k \in DOMAIN g :
                g[k][1] = CategoriaDe(ex[i]) /\ TextoDe(ex[i]) \in Range(g[k][2])
    /\ \A k \in DOMAIN g :
          /\ g[k][2] # <<>>
          /\ \A a, b \in DOMAIN g[k][2] : a # b => g[k][2][a] # g[k][2][b]
          /\ \A a \in DOMAIN g[k][2] :
                /\ g[k][2][a] # <<>>
                /\ \E i \in DOMAIN ex :
                      CategoriaDe(ex[i]) = g[k][1] /\ TextoDe(ex[i]) = g[k][2][a]
          /\ \A a, b \in DOMAIN g[k][2] :
                a < b => PrimerExtra(ex, g[k][1], g[k][2][a]) < PrimerExtra(ex, g[k][1], g[k][2][b])

\* C23: agrupar_extras_B maps each category to the distinct non-empty texts
\* of the extras of that category, in first-occurrence order and without
\* repetition; every non-empty extra text is in the list of its category and
\* nothing else is. An extra without a category is grouped under "general".
\* The grouping takes the extras alone, so tier A has no part in it.
C23_GroupedExtras ==
    (call.fn = "agrupar_extras_B" /\ call.done) => Agrupa(call.res, call.extras)

\* The same text twice in one category (once with margins), once in another,
\* and the grouping keeps it once in each.
C23_Witness ==
    /\ call.fn = "agrupar_extras_B"
    /\ call.done
    /\ Len(call.extras) = 3
    /\ call.extras[1].categoria_b = "manejo" /\ call.extras[1].texto = LPodar
    /\ call.extras[2].categoria_b = "suelo" /\ call.extras[2].texto = LPodar
    /\ call.extras[3].categoria_b = "manejo" /\ call.extras[3].texto = LPodarMargen
    /\ call.res = << <<"manejo", <<LPodar>> >>, <<"suelo", <<LPodar>> >> >>

\* An empty text is in no list, and a category with only empty texts has no
\* entry.
C23_WitnessVacio ==
    /\ call.fn = "agrupar_extras_B"
    /\ call.done
    /\ Len(call.extras) = 2
    /\ call.extras[1].texto = <<>> /\ call.extras[1].categoria_b = "suelo"
    /\ call.extras[2].texto = LCal /\ call.extras[2].categoria_b = "manejo"
    /\ call.res = << <<"manejo", <<LCal>> >> >>

\* The bonus of an altitude difference, in hundredths.
Banda(diff) ==
    IF diff <= 60 THEN 100 ELSE IF diff <= 120 THEN 85 ELSE IF diff <= 200 THEN 70 ELSE 55

\* The reference altitude of a case: that of its station when the table has
\* the station, otherwise the altitude recorded in the case.
Referencia(estacion, alt) ==
    IF estacion \in {"Estacion_Tambo", "Estacion_Piendamo"}
    THEN STATIONS_ALT(estacion) ELSE alt

\* The bonus the claim gives for a query altitude, a station and a case
\* altitude; 0 where the claim gives none (query altitude known, no
\* reference altitude).
BonoEsperado(query_alt, estacion, alt) ==
    IF IsNone(query_alt) \/ EsMalo(query_alt) THEN 100
    ELSE IF IsNone(Referencia(estacion, alt)) THEN 0
    ELSE Banda(Abs(Val(query_alt) - Val(Referencia(estacion, alt))))

\* C24: the bonus is 1.00, 0.85, 0.70 or 0.55 by the altitude difference
\* (thresholds 60, 120 and 200 m, inclusive) against the altitude of the
\* case's station when the table has it and the case's own altitude
\* otherwise; an unknown query altitude gives 1.00; and the tier-B score is
\* clamp(base * bonus), never above the base score, which is the score of
\* the same vectors without a query altitude.
C24_StationBonus ==
    /\ (call.fn = "station_bonus" /\ call.done) =>
          LET b == BonoEsperado(call.query_alt, call.case_station, call.case_alt)
          IN b # 0 => call.res = b
    /\ (call.fn = "similarity_weighted_B" /\ call.done) =>
          LET base == similarity_weighted_B(call.qvec, call.cvec, None)
              b    == BonoEsperado(call.query_alt, call.cvec.estacion, call.cvec.altitud_msnm)
          IN /\ call.res <= base
             /\ b # 0 => call.res = Max(0, Min(ONE, (base * b) \div 100))

\* A case of Estacion_Tambo that records 1400 m, asked from 1615 m: the
\* difference is taken to the 1735 m of the table, 120 m, and the bonus is 0.85.
C24_Witness ==
    /\ call.fn = "station_bonus"
    /\ call.done
    /\ call.query_alt = Num(1615)
    /\ call.case_station = "Estacion_Tambo"
    /\ call.case_alt = Num(1400)
    /\ call.res = 85

\* A station the table does not have: the case's own 1500 m, 201 m away.
C24_WitnessPropia ==
    /\ call.fn = "station_bonus"
    /\ call.done
    /\ call.query_alt = Num(1701)
    /\ call.case_station = "Otra"
    /\ call.case_alt = Num(1500)
    /\ call.res = 55

\* A tier-B score lowered by the bonus: 0.70 of a positive base.
C24_WitnessPuntaje ==
    /\ call.fn = "similarity_weighted_B"
    /\ call.done
    /\ call.query_alt = Num(1600)
    /\ call.cvec.estacion = "Estacion_Tambo"
    /\ similarity_weighted_B(call.qvec, call.cvec, None) > 0
    /\ call.res = (similarity_weighted_B(call.qvec, call.cvec, None) * 70) \div 100
    /\ call.res < similarity_weighted_B(call.qvec, call.cvec, None)

\* The phase a spelling stands for.
FaseLunar(x) ==
    IF x \in {"llena", " Llena "} THEN "llena"
    ELSE IF x \in {"nueva", "Nueva"} THEN "nueva"
    ELSE x

\* The edges of the graph of lunar phases.
Vecinas == {{"nueva", "creciente"}, {"creciente", "llena"}, {"llena", "menguante"}}

\* C25: the lunar similarity is 1.0 for the same phase, 0.5 for two phases
\* joined in the graph, 0.0 for any other pair of the four, and absent when
\* either side is missing; and it is the same with its arguments exchanged.
C25_LunarSimilarity ==
    (call.fn = "sim_luna" /\ call.done) =>
       /\ IF call.a \in {NoneStr, ""} \/ call.b \in {NoneStr, ""}
          THEN call.res = None
          ELSE LET x == FaseLunar(call.a)
                   y == FaseLunar(call.b)
               IN call.res = IF x = y THEN Num(ONE)
                             ELSE IF {x, y} \in Vecinas THEN Num(ONE \div 2)
                             ELSE Num(0)
       /\ call.res = sim_luna(call.b, call.a)

\* Waxing against new, the edge taken from its far end: 0.5.
C25_Witness ==
    /\ call.fn = "sim_luna"
    /\ call.done
    /\ call.a = "creciente"
    /\ call.b = "nueva"
    /\ call.res = Num(ONE \div 2)

\* New against full: 0.0; and a phase against a missing one: absent.
C25_WitnessLejos ==
    /\ call.fn = "sim_luna"
    /\ call.done
    /\ \/ call.a = "nueva" /\ call.b = "llena" /\ call.res = Num(0)
       \/ call.a = "menguante" /\ call.b = NoneStr /\ call.res = None

\* The phase of month i (0 to 11) at an altitude, with no MDS.
FaseDelMes(altitud, i) == inferir_fase(altitud, MESES[i + 1], None)

\* The months of a phase at an altitude.
MesesDeFase(altitud, f) == {i \in 0..11 : FaseDelMes(altitud, i) = f}

\* M is four months in a row, December followed by January.
CuatroSeguidos(M) == \E a \in 0..11 : M = {(a + j) % 12 : j \in 0..3}

\* C26: without MDS the phase follows from the altitude band and the month:
\* in the band of the call each phase has four cyclically contiguous months
\* (so every month has one phase), below 1500 m a month has the phase the
\* next month has at or above 1500 m, a missing altitude counts as the high
\* band and an unrecognized month as January.
C26_AltitudeMonthLookup ==
    (call.fn = "inferir_fase" /\ call.done /\ IsNone(call.mds)) =>
       LET conocido == call.mes \in Range(MESES)
           i        == IF conocido THEN (CHOOSE n \in 0..11 : MESES[n + 1] = call.mes) ELSE 0
           baja     == ~IsNone(call.altitud) /\ Val(call.altitud) < 1500
       IN /\ call.res \in Range(FASES)
          /\ \A f \in Range(FASES) : CuatroSeguidos(MesesDeFase(call.altitud, f))
          /\ call.res = FaseDelMes(Num(1500), IF baja THEN (i + 1) % 12 ELSE i)

\* December at 1499 m is already nursery, the phase of January higher up,
\* while December at 1500 m is still harvest.
C26_Witness ==
    /\ call.fn = "inferir_fase"
    /\ call.done
    /\ IsNone(call.mds)
    /\ call.mes = "diciembre"
    /\ call.altitud = Num(1499)
    /\ call.res = "vivero_establecimiento"
    /\ FaseDelMes(Num(1500), 11) = "cosecha_poscosecha"

\* No altitude and a month that is no month: the high band in January.
C26_WitnessSinDatos ==
    /\ call.fn = "inferir_fase"
    /\ call.done
    /\ IsNone(call.mds)
    /\ IsNone(call.altitud)
    /\ call.mes = "mes?"
    /\ call.res = "vivero_establecimiento"

\* C27 as claimed: verbose does not change the outcome: a call with
\* verbose=true that has computed its response and gone through retention
\* returns that response, as the call with verbose=false does.
C27_VerboseReturnsResponse ==
    \A p \in Procs :
       (pc[p] = "done" /\ resp[p] # NoResp) => ret[p] = "output"

\* C28 as claimed: a request for which the core loads no case is answered
\* with status 400, and status 500 is the answer only when the core raised.
C28_NoOutputIs400 ==
    \A p \in Procs :
       (pc[p] = "done" /\ ~params[p].verbose) =>
          /\ ret[p] = "None" => recomendar_cbr(ret[p]) = 400
          /\ recomendar_cbr(ret[p]) = 500 => ret[p] = "raised"

\* The gate's answer for domain d in the phase and with the MDS of p.
AplicaEn(p, d) ==
    dominio_aplica(d, resp[p].fase_actual, params[p].meses_despues_siembra)[1]

\* C29: in the phase and with the MDS of every request at least one of the
\* three domains is applicable and nursery and borer are never both; so a
\* response under the selector auto has an applicable domain, and never
\* nursery and borer together.
C29_SomeDomainApplies ==
    \A p \in Procs :
       (resp[p] # NoResp /\ ~EsMalo(params[p].meses_despues_siembra)) =>
          /\ \E d \in Range(DOMINIOS) : AplicaEn(p, d)
          /\ ~(AplicaEn(p, "almacigos") /\ AplicaEn(p, "broca"))
          /\ params[p].tipo = "auto" =>
                LET r == resp[p].por_dom
                IN /\ \E d \in DOMAIN r : r[d].aplicabilidad.aplica
                   /\ ~(r["almacigos"].aplicabilidad.aplica /\ r["broca"].aplicabilidad.aplica)

\* Harvest phase with an MDS of 10 months under auto: nursery is gated out,
\* borer applies and fertilization applies by its exception.
C29_Witness ==
    /\ Returned(1)
    /\ params[1].tipo = "auto"
    /\ resp[1].fase_actual = "cosecha_poscosecha"
    /\ params[1].meses_despues_siembra = Num(100)
    /\ ~resp[1].por_dom["almacigos"].aplicabilidad.aplica
    /\ resp[1].por_dom["fertilizacion_sin_analisis"].aplicabilidad.aplica
    /\ resp[1].por_dom["broca"].aplicabilidad.aplica

\* Harvest phase without MDS under auto: borer alone applies.
C29_WitnessUno ==
    /\ Returned(1)
    /\ params[1].tipo = "auto"
    /\ IsNone(params[1].meses_despues_siembra)
    /\ {d \in DOMAIN resp[1].por_dom : resp[1].por_dom[d].aplicabilidad.aplica} = {"broca"}

\* The requests of p and q differ at most in their retention target.
MismaConsulta(p, q) ==
    [params[p] EXCEPT !.save_case_to = NoneStr] = [params[q] EXCEPT !.save_case_to = NoneStr]

\* Neither p nor q retains into a store that p or q loads.
DestinosAparte(p, q) ==
    \A r \in {p, q} :
       params[r].save_case_to \notin Range(params[p].data) \cup Range(params[q].data)

\* The dict returned by p without the retained id.
SalidaSinId(p) == [Salida(p) EXCEPT !.saved_case_id = NoId]

\* C30: two invocations with the same parameters over the same stores give
\* the same response: the same hits in the same order, the same
\* recommendations and the same extras; a retention by either of them into
\* a store that is not loaded changes nothing in the response of the other
\* but the retained id, in whatever order the two run.
C30_Independent ==
    \A p, q \in Procs :
       (/\ p # q
        /\ resp[p] # NoResp /\ resp[q] # NoResp
        /\ MismaConsulta(p, q)
        /\ DestinosAparte(p, q))
          => /\ resp[p] = resp[q]
             /\ (Returned(p) /\ Returned(q)) => SalidaSinId(p) = SalidaSinId(q)

\* Two equal requests without retention, from stores holding five cases:
\* equal responses with one fertilization hit each.
C30_Witness ==
    /\ Returned(1) /\ Returned(2)
    /\ params[1] = params[2]
    /\ params[1].save_case_to = NoneStr
    /\ params[1].data = <<"A", "C">>
    /\ Len(cases[1]) = 5
    /\ Len(Salida(1).resultados_A["fertilizacion_sin_analisis"].hits) = 1
    /\ Salida(1) = Salida(2)

\* The first retained into a store that is not loaded before the second read
\* that store for its own retention: the ids follow each other and the
\* responses are otherwise the same.
C30_WitnessRetencion ==
    /\ Returned(1) /\ Returned(2)
    /\ MismaConsulta(1, 2)
    /\ params[1].save_case_to = "C" /\ params[2].save_case_to = "C"
    /\ params[1].data = <<"A", "B">>
    /\ saved_id[1] = NewId(2) /\ saved_id[2] = NewId(3)
    /\ SalidaSinId(1) = SalidaSinId(2)
    /\ Salida(1) # Salida(2)

===========================================================================
